---- MODULE Spec2Model ----
(***************************************************************************)
(* Delivery-hours service: the time-interval algebra (Time, TimeRange),    *)
(* the per-day and weekly schedules (DeliveryWindow, WeeklyDeliveryWindow) *)
(* the raw-format converter (TimeWindowsConverter), the use case that     *)
(* combines the two upstream lookups (GetVenueDeliveryHoursUseCase), the   *)
(* HTTP client in front of the upstreams, the endpoint's error mapping and *)
(* the circuit breaker around each upstream lookup (common/resilience.py). *)
(*                                                                         *)
(* Values are immutable in the program, so every operation of the domain   *)
(* model is an operator; the specifications below draw the operations'     *)
(* inputs from bounded sets and apply the operations in their actions.     *)
(***************************************************************************)
EXTENDS Integers, Sequences, FiniteSets, TLC

VARIABLES
    raw_windows,      \* the list handed to DeliveryWindow(day, windows)
    window_day,       \* the day handed to DeliveryWindow(day, windows)
    delivery_window,  \* the DeliveryWindow constructed from it, or None
    venue_window,     \* a WeeklyDeliveryWindow (the venue's opening hours), or None
    courier_window,   \* a WeeklyDeliveryWindow (the couriers' hours), or None
    intersection,     \* the result of WeeklyDeliveryWindow.intersect_with, or None
    venue_data,       \* raw open/close events per day name (venue side)
    courier_data,     \* raw open/close events per day name (courier side)
    conversion,       \* the outcome of the last convert_to_weekly_delivery_window
    ports,            \* what each side's service port does when it is called
    tasks,            \* the two asyncio tasks of execute: state and outcome
    pc,               \* where the request is: in execute, returned, answered
    task_results,     \* venue_task_result and courier_task_result of execute
    result,           \* the DeliveryHoursResult execute builds
    service_statuses, \* the service_statuses dict of execute
    response,         \* what the endpoint answers: a status code and a body
    log,              \* the order in which lookups ran and intersect_with was called
    range_start,      \* start_time handed to TimeRange(start_time, end_time)
    range_end,        \* end_time handed to TimeRange(start_time, end_time)
    built_range,      \* what TimeRange(range_start, range_end) gave
    second_range,     \* another TimeRange, to merge or intersect built_range with
    derived_range,    \* the outcome of that merge or find_intersection
    clock,            \* the Time that add_minutes / subtract_minutes is called on
    delta,            \* its integer argument
    shifted,          \* the call made and what it gave
    breaker,          \* the CircuitBreaker behind one decorated function
    now,              \* what datetime.now(UTC) returns, in seconds
    in_flight,        \* calls of the wrapper that are awaiting the wrapped function
    last_call,        \* the last step of a wrapper call and what execute made of it
    observed          \* what the calls' outcomes have been, counted from outside

domain_vars == <<raw_windows, window_day, delivery_window, venue_window, courier_window,
                 intersection, venue_data, courier_data, conversion>>

use_case_vars == <<ports, tasks, pc, task_results, result, service_statuses, response, log>>

time_vars == <<range_start, range_end, built_range, second_range, derived_range,
               clock, delta, shifted>>

breaker_vars == <<breaker, now, in_flight, last_call, observed>>

vars == <<domain_vars, use_case_vars, time_vars, breaker_vars>>

----------------------------------------------------------------------------
(* Program constants (domain/models/time.py).                              *)

MAX_HOURS == 23
MAX_MINUTES == 59
MIN_HOURS == 0
MIN_MINUTES == 0
MINUTES_IN_DAY == 1440
SECONDS_IN_DAY == 86400
MINIMUM_DURATION_MINUTES == 30

(* Bounds of the model.                                                    *)

MaxWindows == 3       \* longest list handed to the DeliveryWindow constructor
GridSlots == 4        \* number of grid points range endpoints are drawn from
MaxDayWindows == 2    \* longest list behind one day of a weekly schedule
MaxEvents == 4        \* most open/close events in one upstream response

(* Python's None, and a raised exception, as values.                       *)

None == [none |-> TRUE]
Raised(name) == [error |-> name]
IsError(x) == "error" \in DOMAIN x

\* The variables of a part of the program that a specification does not run.
UseCaseUnused ==
    /\ ports = None
    /\ tasks = None
    /\ pc = None
    /\ task_results = None
    /\ result = None
    /\ service_statuses = None
    /\ response = None
    /\ log = None

TimeAlgebraUnused ==
    /\ range_start = None
    /\ range_end = None
    /\ built_range = None
    /\ second_range = None
    /\ derived_range = None
    /\ clock = None
    /\ delta = None
    /\ shifted = None

BreakerUnused ==
    /\ breaker = None
    /\ now = None
    /\ in_flight = None
    /\ last_call = None
    /\ observed = None

DomainUnused ==
    /\ raw_windows = None
    /\ window_day = None
    /\ delivery_window = None
    /\ venue_window = None
    /\ courier_window = None
    /\ intersection = None
    /\ venue_data = None
    /\ courier_data = None
    /\ conversion = None

----------------------------------------------------------------------------
(* Time                                                                    *)

\* Time(hours, minutes): __post_init__ validates both fields.
NewTime(hours, minutes) ==
    IF ~(MIN_HOURS <= hours /\ hours <= MAX_HOURS) THEN Raised("InvalidTimeError")
    ELSE IF ~(MIN_MINUTES <= minutes /\ minutes <= MAX_MINUTES)
         THEN Raised("InvalidTimeError")
    ELSE [hours |-> hours, minutes |-> minutes]

minutes_since_midnight(t) == t.hours * 60 + t.minutes

from_minutes(m) ==
    IF ~(MIN_MINUTES <= m /\ m < MINUTES_IN_DAY) THEN Raised("InvalidTimeError")
    ELSE NewTime(m \div 60, m % 60)

from_unix_seconds(unix_seconds) ==
    IF ~(0 <= unix_seconds /\ unix_seconds < SECONDS_IN_DAY)
    THEN Raised("InvalidTimeError")
    ELSE from_minutes(unix_seconds \div 60)

\* A version with the remainder of a truncating division, which takes the sign
\* of the sum.
add_minutes_truncating(t, minutes) ==
    LET sum == minutes_since_midnight(t) + minutes
    IN  from_minutes(IF sum >= 0 THEN sum % MINUTES_IN_DAY
                     ELSE 0 - ((0 - sum) % MINUTES_IN_DAY))

\* Python's % gives a result with the sign of the divisor, as % does here.
add_minutes(t, minutes) ==
    from_minutes((minutes_since_midnight(t) + minutes) % MINUTES_IN_DAY)

subtract_minutes(t, minutes) == add_minutes(t, 0 - minutes)

\* Time.__eq__, Time.__lt__ and the orderings total_ordering derives from them.
TimeEq(a, b) == minutes_since_midnight(a) = minutes_since_midnight(b)
TimeLt(a, b) == minutes_since_midnight(a) < minutes_since_midnight(b)
TimeLe(a, b) == TimeLt(a, b) \/ TimeEq(a, b)
TimeGt(a, b) == ~TimeLt(a, b) /\ ~TimeEq(a, b)
TimeGe(a, b) == ~TimeLt(a, b)

\* Python's min(a, b) and max(a, b) on Time: the first argument wins a tie.
TimeMin(a, b) == IF TimeLt(b, a) THEN b ELSE a
TimeMax(a, b) == IF TimeGt(b, a) THEN b ELSE a

----------------------------------------------------------------------------
(* TimeRange                                                               *)

\* A version that takes only a later start for overnight.
is_overnight_strict(r) == TimeGt(r.start_time, r.end_time)

is_overnight(r) == TimeGt(r.start_time, r.end_time) \/ TimeEq(r.start_time, r.end_time)

calculate_duration(r) ==
    IF is_overnight(r)
    THEN (MINUTES_IN_DAY - minutes_since_midnight(r.start_time))
         + minutes_since_midnight(r.end_time)
    ELSE minutes_since_midnight(r.end_time) - minutes_since_midnight(r.start_time)

duration_minutes(r) == calculate_duration(r)

\* TimeRange(start_time, end_time): __post_init__ raises below the minimum.
NewTimeRange(start_time, end_time) ==
    LET r == [start_time |-> start_time, end_time |-> end_time]
    IN  IF duration_minutes(r) < MINIMUM_DURATION_MINUTES
        THEN Raised("InvalidDurationError")
        ELSE r

\* A version whose bounds are exclusive.
contains_time_exclusive(r, t) ==
    IF is_overnight(r)
    THEN TimeGt(t, r.start_time) \/ TimeLt(t, r.end_time)
    ELSE TimeLt(r.start_time, t) /\ TimeLt(t, r.end_time)

contains_time(r, t) ==
    IF is_overnight(r)
    THEN TimeGe(t, r.start_time) \/ TimeLe(t, r.end_time)
    ELSE TimeLe(r.start_time, t) /\ TimeLe(t, r.end_time)

overlaps_with(self, other) ==
    \/ contains_time(self, other.start_time)
    \/ contains_time(self, other.end_time)
    \/ contains_time(other, self.start_time)
    \/ contains_time(other, self.end_time)
    \/ (is_overnight(self) /\ is_overnight(other))

is_adjacent_to(self, other) ==
    IF ~is_overnight(self) /\ ~is_overnight(other)
    THEN TimeEq(self.start_time, other.end_time) \/ TimeEq(self.end_time, other.start_time)
    ELSE FALSE

\* A version that keeps self only when it is strictly the longer overnight range.
merge_strictly_longer(self, other) ==
    IF ~(overlaps_with(self, other) \/ is_adjacent_to(self, other)) THEN None
    ELSE IF is_overnight(self) \/ is_overnight(other)
    THEN IF \/ (is_overnight(self) /\ ~is_overnight(other))
            \/ (/\ is_overnight(self)
                /\ is_overnight(other)
                /\ duration_minutes(self) > duration_minutes(other))
         THEN NewTimeRange(self.start_time, self.end_time)
         ELSE NewTimeRange(other.start_time, other.end_time)
    ELSE NewTimeRange(TimeMin(self.start_time, other.start_time),
                      TimeMax(self.end_time, other.end_time))

merge(self, other) ==
    IF ~(overlaps_with(self, other) \/ is_adjacent_to(self, other)) THEN None
    ELSE IF is_overnight(self) \/ is_overnight(other)
    THEN IF \/ (is_overnight(self) /\ ~is_overnight(other))
            \/ (/\ is_overnight(self)
                /\ is_overnight(other)
                /\ duration_minutes(self) >= duration_minutes(other))
         THEN NewTimeRange(self.start_time, self.end_time)
         ELSE NewTimeRange(other.start_time, other.end_time)
    ELSE NewTimeRange(TimeMin(self.start_time, other.start_time),
                      TimeMax(self.end_time, other.end_time))

find_intersection(self, other) ==
    IF ~overlaps_with(self, other) THEN None
    ELSE IF is_overnight(self) /\ is_overnight(other)
    THEN NewTimeRange(
            IF duration_minutes(self) <= duration_minutes(other)
            THEN self.start_time ELSE other.start_time,
            IF duration_minutes(self) <= duration_minutes(other)
            THEN self.end_time ELSE other.end_time)
    ELSE IF is_overnight(self)
    THEN IF contains_time(self, other.start_time) /\ contains_time(self, other.end_time)
         THEN NewTimeRange(other.start_time, other.end_time)
         ELSE None
    ELSE IF is_overnight(other)
    THEN IF contains_time(other, self.start_time) /\ contains_time(other, self.end_time)
         THEN NewTimeRange(self.start_time, self.end_time)
         ELSE None
    ELSE LET start == TimeMax(self.start_time, other.start_time)
             end == TimeMin(self.end_time, other.end_time)
             r == NewTimeRange(start, end)
         IN  IF IsError(r) THEN None ELSE r   \* except InvalidDurationError

----------------------------------------------------------------------------
(* DayOfWeek                                                               *)

MONDAY == 0
SUNDAY == 6
DayOfWeek == MONDAY..SUNDAY

----------------------------------------------------------------------------
(* DeliveryWindow                                                          *)

\* sorted(windows, key=lambda w: w.start_time): a stable sort, so a window goes
\* after every window already placed whose start_time is not later than its own.
RECURSIVE InsertByStart(_, _)
InsertByStart(sorted, w) ==
    IF sorted = <<>> THEN <<w>>
    ELSE IF TimeLt(w.start_time, Head(sorted).start_time) THEN <<w>> \o sorted
    ELSE <<Head(sorted)>> \o InsertByStart(Tail(sorted), w)

RECURSIVE SortedByStart(_)
SortedByStart(windows) ==
    IF windows = <<>> THEN <<>>
    ELSE InsertByStart(SortedByStart(SubSeq(windows, 1, Len(windows) - 1)),
                       windows[Len(windows)])

\* The loop of _process_windows from index i on: `current` is the running
\* window and `merged` the windows committed so far.
RECURSIVE MergeSweep(_, _, _, _)
MergeSweep(sorted_windows, i, current, merged) ==
    IF i > Len(sorted_windows) THEN Append(merged, current)
    ELSE LET next_window == sorted_windows[i]
             merged_window == merge(current, next_window)
         IN  IF merged_window # None
             THEN MergeSweep(sorted_windows, i + 1, merged_window, merged)
             ELSE MergeSweep(sorted_windows, i + 1, next_window, Append(merged, current))

process_windows(windows) ==
    IF windows = <<>> THEN <<>>
    ELSE LET sorted_windows == SortedByStart(windows)
         IN  MergeSweep(sorted_windows, 2, sorted_windows[1], <<>>)

\* DeliveryWindow(day, windows): __post_init__ replaces windows by the processed list.
NewDeliveryWindow(day, windows) == [day |-> day, windows |-> process_windows(windows)]

closed(day) == NewDeliveryWindow(day, <<>>)

is_closed(dw) == Len(dw.windows) = 0

\* The nested loops of DeliveryWindow.intersect_with: window1 outer, window2 inner.
RECURSIVE IntersectRow(_, _, _)
IntersectRow(window1, others, j) ==
    IF j > Len(others) THEN <<>>
    ELSE LET x == find_intersection(window1, others[j])
         IN  (IF x # None THEN <<x>> ELSE <<>>) \o IntersectRow(window1, others, j + 1)

RECURSIVE IntersectAll(_, _, _)
IntersectAll(windows, others, i) ==
    IF i > Len(windows) THEN <<>>
    ELSE IntersectRow(windows[i], others, 1) \o IntersectAll(windows, others, i + 1)

DeliveryWindow_intersect_with(self, other) ==
    IF self.day # other.day THEN Raised("IncompatibleDaysError")
    ELSE IF is_closed(self) \/ is_closed(other) THEN NewDeliveryWindow(self.day, <<>>)
    ELSE NewDeliveryWindow(self.day, IntersectAll(self.windows, other.windows, 1))

----------------------------------------------------------------------------
(* WeeklyDeliveryWindow                                                    *)

\* WeeklyDeliveryWindow(schedule): `given` is the set of days the dict holds.
NewWeeklyDeliveryWindow(given, schedule) ==
    [schedule |-> [day \in DayOfWeek |->
                      IF day \in given THEN schedule[day] ELSE closed(day)]]

empty == NewWeeklyDeliveryWindow({}, <<>>)

get_day_window(w, day) == w.schedule[day]

\* A version that intersects each day with the other schedule's following day as
\* well (treating overnight spill-over as a cross-day interaction).
WeeklyDeliveryWindow_intersect_with_spill(self, other) ==
    LET next_day(day) == (day + 1) % Cardinality(DayOfWeek)
        intersection_days ==
            [day \in DayOfWeek |->
                DeliveryWindow_intersect_with(
                    self.schedule[day],
                    NewDeliveryWindow(day, other.schedule[day].windows
                                           \o other.schedule[next_day(day)].windows))]
    IN  NewWeeklyDeliveryWindow(DayOfWeek, intersection_days)

\* An IncompatibleDaysError of any day's intersection leaves the loop and the
\* method.
WeeklyDeliveryWindow_intersect_with(self, other) ==
    LET intersection_days ==
            [day \in DayOfWeek |->
                DeliveryWindow_intersect_with(self.schedule[day], other.schedule[day])]
    IN  IF \E day \in DayOfWeek : IsError(intersection_days[day])
        THEN Raised("IncompatibleDaysError")
        ELSE NewWeeklyDeliveryWindow(DayOfWeek, intersection_days)

----------------------------------------------------------------------------
(* TimeWindowsConverter                                                    *)
(*                                                                         *)
(* An event is the dict {"open": seconds} or {"close": seconds}: a record  *)
(* with the one field open or close. `data` maps day names to event lists. *)

DayNames == <<"monday", "tuesday", "wednesday", "thursday", "friday", "saturday", "sunday">>

\* get_day_name_mapping()[day_enum]
get_day_name_mapping(day_enum) == DayNames[day_enum + 1]

\* get_day_mapping().get(day_name): the enum, or None for an unknown name
get_day_mapping(day_name) ==
    IF \E d \in DayOfWeek : DayNames[d + 1] = day_name
    THEN CHOOSE d \in DayOfWeek : DayNames[d + 1] = day_name
    ELSE None

\* data.get(day_name, [])
DataGet(data, day_name) == IF day_name \in DOMAIN data THEN data[day_name] ELSE <<>>

\* The body of both try blocks: two Time.from_unix_seconds, then TimeRange(...).
\* The first exception raised is the outcome.
TryTimeRange(open_seconds, close_seconds) ==
    LET start_time == from_unix_seconds(open_seconds)
        end_time == from_unix_seconds(close_seconds)
    IN  IF IsError(start_time) THEN start_time
        ELSE IF IsError(end_time) THEN end_time
        ELSE NewTimeRange(start_time, end_time)

\* A version that catches InvalidDurationError only.
CaughtInDay_DurationOnly(e) == e = Raised("InvalidDurationError")

\* `except Exception` of process_day_windows: every exception is caught.
CaughtInDay(e) == IsError(e)

\* `except Exception` of handle_all_days: every exception is caught.
CaughtInWeek(e) == IsError(e)

\* A version without the `close_seconds < open_seconds` skip.
FindClose_NoOvernightSkip(time_windows, open_event_index, processed_indices) ==
    LET candidates ==
            {j \in (open_event_index + 1)..Len(time_windows) :
                /\ j \notin processed_indices
                /\ "close" \in DOMAIN time_windows[j]}
    IN  IF candidates = {} THEN 0
        ELSE CHOOSE j \in candidates : \A k \in candidates : j <= k

\* A version without the `close_event_index in processed_indices` skip.
FindClose_ReusesCloses(time_windows, open_event_index, processed_indices) ==
    LET candidates ==
            {j \in (open_event_index + 1)..Len(time_windows) :
                /\ "close" \in DOMAIN time_windows[j]
                /\ ~(time_windows[j].close < time_windows[open_event_index].open)}
    IN  IF candidates = {} THEN 0
        ELSE CHOOSE j \in candidates : \A k \in candidates : j <= k

\* The inner loop of process_day_windows: the first index after the open event
\* that is not processed, is a close event and does not close before the open;
\* 0 when the loop ends without one.
FindClose(time_windows, open_event_index, processed_indices) ==
    LET candidates ==
            {j \in (open_event_index + 1)..Len(time_windows) :
                /\ j \notin processed_indices
                /\ "close" \in DOMAIN time_windows[j]
                /\ ~(time_windows[j].close < time_windows[open_event_index].open)}
    IN  IF candidates = {} THEN 0
        ELSE CHOOSE j \in candidates : \A k \in candidates : j <= k

\* The outer loop of process_day_windows from index i on. `pairs` records, for
\* each TimeRange built, the indices of the open and the close it was built from.
RECURSIVE ProcessFrom(_, _, _, _, _)
ProcessFrom(time_windows, i, time_ranges, processed_indices, pairs) ==
    IF i > Len(time_windows)
    THEN [time_ranges |-> time_ranges, pairs |-> pairs, raised |-> None]
    ELSE IF i \in processed_indices \/ "open" \notin DOMAIN time_windows[i]
    THEN ProcessFrom(time_windows, i + 1, time_ranges, processed_indices, pairs)
    ELSE LET j == FindClose(time_windows, i, processed_indices)
             time_range == TryTimeRange(time_windows[i].open, time_windows[j].close)
         IN  IF j = 0
             THEN ProcessFrom(time_windows, i + 1, time_ranges, processed_indices, pairs)
             ELSE IF ~IsError(time_range)
             THEN ProcessFrom(time_windows, i + 1, Append(time_ranges, time_range),
                              processed_indices \cup {i, j}, Append(pairs, <<i, j>>))
             ELSE IF CaughtInDay(time_range)
             THEN ProcessFrom(time_windows, i + 1, time_ranges,
                              processed_indices \cup {i, j}, pairs)
             ELSE [time_ranges |-> time_ranges, pairs |-> pairs, raised |-> time_range]

process_day_windows(time_windows) == ProcessFrom(time_windows, 1, <<>>, {}, <<>>)

\* The first loop of handle_all_days: the within-day windows of every known day.
WithinDay(data) ==
    [day \in DayOfWeek |-> process_day_windows(DataGet(data, get_day_name_mapping(day)))]

\* The second loop of handle_all_days from day i on: the overnight patterns.
\* `stitched` records, for each day, the TimeRange synthesized for it (or None).
RECURSIVE StitchFrom(_, _, _, _, _)
StitchFrom(data, i, schedule, used_next_day_closes, stitched) ==
    IF i > SUNDAY THEN [schedule |-> schedule, stitched |-> stitched, raised |-> None]
    ELSE
    LET day_enum == i
        next_day_enum == (i + 1) % Len(DayNames)
        current_day_events == DataGet(data, get_day_name_mapping(day_enum))
        next_day_events == DataGet(data, get_day_name_mapping(next_day_enum))
        last_event_current == current_day_events[Len(current_day_events)]
        first_event_next == next_day_events[1]
        close_key == <<next_day_enum, first_event_next.close>>
        time_range == TryTimeRange(last_event_current.open, first_event_next.close)
        new_windows == schedule[day_enum].windows \o <<time_range>>
    IN  IF current_day_events = <<>> \/ next_day_events = <<>>
        THEN StitchFrom(data, i + 1, schedule, used_next_day_closes, stitched)
        ELSE IF ~("open" \in DOMAIN last_event_current /\ "close" \in DOMAIN first_event_next)
        THEN StitchFrom(data, i + 1, schedule, used_next_day_closes, stitched)
        ELSE IF close_key \in used_next_day_closes
        THEN StitchFrom(data, i + 1, schedule, used_next_day_closes, stitched)
        ELSE IF ~IsError(time_range)
        THEN StitchFrom(data, i + 1,
                        [schedule EXCEPT ![day_enum] = NewDeliveryWindow(day_enum, new_windows)],
                        used_next_day_closes \cup {close_key},
                        [stitched EXCEPT ![day_enum] = time_range])
        ELSE IF CaughtInWeek(time_range)
        THEN StitchFrom(data, i + 1, schedule, used_next_day_closes, stitched)
        ELSE [schedule |-> schedule, stitched |-> stitched, raised |-> time_range]

\* handle_all_days(data). Unknown day names are skipped; a day whose
\* within-day list is empty stays closed.
handle_all_days(data) ==
    LET within == WithinDay(data)
        failed == {day \in DayOfWeek : within[day].raised # None}
        schedule == [day \in DayOfWeek |->
                        IF within[day].time_ranges # <<>>
                        THEN NewDeliveryWindow(day, within[day].time_ranges)
                        ELSE closed(day)]
        week == StitchFrom(data, MONDAY, schedule, {}, [day \in DayOfWeek |-> None])
    IN  IF failed # {}
        THEN [schedule |-> None, within |-> within, stitched |-> None,
              raised |-> within[CHOOSE day \in failed : TRUE].raised]
        ELSE [schedule |-> week.schedule, within |-> within,
              stitched |-> week.stitched, raised |-> week.raised]

\* `return WeeklyDeliveryWindow(schedule)`, reached unless handle_all_days raised.
weekly_from_schedule(days) ==
    IF days.raised # None
    THEN [result |-> None, raised |-> days.raised,
          within |-> days.within, stitched |-> days.stitched]
    ELSE [result |-> NewWeeklyDeliveryWindow(DayOfWeek, days.schedule),
          raised |-> None, within |-> days.within, stitched |-> days.stitched]

\* convert_to_weekly_delivery_window(data): the WeeklyDeliveryWindow returned (or
\* None with the exception raised), and what handle_all_days built on the way.
convert_to_weekly_delivery_window(data) == weekly_from_schedule(handle_all_days(data))

----------------------------------------------------------------------------
(* Inputs: the valid TimeRanges whose endpoints lie on a grid of GridSlots *)
(* points spaced by the minimum duration, and the lists of them.           *)

TimePoints == {from_minutes(k * MINIMUM_DURATION_MINUTES) : k \in 0..(GridSlots - 1)}

ValidRanges ==
    {r \in {NewTimeRange(s, e) : s \in TimePoints, e \in TimePoints} : ~IsError(r)}

SeqsUpTo(S, n) == UNION {[1..k -> S] : k \in 0..n}

----------------------------------------------------------------------------
(* SpecWindow: one DeliveryWindow is constructed from a list of valid      *)
(* TimeRanges, wrapped in a WeeklyDeliveryWindow, and intersected with     *)
(* itself.                                                                 *)

InitWindow ==
    /\ UseCaseUnused
    /\ TimeAlgebraUnused
    /\ BreakerUnused
    /\ raw_windows \in SeqsUpTo(ValidRanges, MaxWindows)
    /\ window_day \in DayOfWeek
    /\ delivery_window = None
    /\ venue_window = None
    /\ courier_window = None
    /\ intersection = None
    /\ venue_data = None
    /\ courier_data = None
    /\ conversion = None

\* DeliveryWindow(day, windows)
Construct ==
    /\ delivery_window = None
    /\ delivery_window' = NewDeliveryWindow(window_day, raw_windows)
    /\ UNCHANGED <<use_case_vars, time_vars, breaker_vars>>
    /\ UNCHANGED <<raw_windows, window_day, venue_window, courier_window, intersection,
                   venue_data, courier_data, conversion>>

\* WeeklyDeliveryWindow({day: delivery_window})
WrapWeekly ==
    /\ delivery_window # None
    /\ venue_window = None
    /\ venue_window' = NewWeeklyDeliveryWindow({delivery_window.day},
                            [d \in {delivery_window.day} |-> delivery_window])
    /\ UNCHANGED <<use_case_vars, time_vars, breaker_vars>>
    /\ UNCHANGED <<raw_windows, window_day, delivery_window, courier_window, intersection,
                   venue_data, courier_data, conversion>>

\* w.intersect_with(w)
IntersectWithItself ==
    /\ venue_window # None
    /\ intersection = None
    /\ intersection' = WeeklyDeliveryWindow_intersect_with(venue_window, venue_window)
    /\ UNCHANGED <<use_case_vars, time_vars, breaker_vars>>
    /\ UNCHANGED <<raw_windows, window_day, delivery_window, venue_window, courier_window,
                   venue_data, courier_data, conversion>>

NextWindow == Construct \/ WrapWeekly \/ IntersectWithItself

SpecWindow == InitWindow /\ [][NextWindow]_vars

----------------------------------------------------------------------------
(* Claims about DeliveryWindow construction (SpecWindow).                  *)

SortedByStartTime(windows) ==
    \A i \in 1..(Len(windows) - 1) :
        TimeLe(windows[i].start_time, windows[i + 1].start_time)

PairwiseDisjoint(windows) ==
    \A i, j \in 1..Len(windows) :
        i # j => /\ ~overlaps_with(windows[i], windows[j])
                 /\ ~is_adjacent_to(windows[i], windows[j])

\* C1: the windows of every DeliveryWindow constructed from a list of valid
\* TimeRanges (regular, overnight and full-day mixed) are sorted by start time
\* and pairwise non-overlapping and non-adjacent.
C1_SortedAndDisjoint ==
    delivery_window # None =>
        /\ SortedByStartTime(delivery_window.windows)
        /\ PairwiseDisjoint(delivery_window.windows)

Covered(windows, m) ==
    \E i \in 1..Len(windows) : contains_time(windows[i], from_minutes(m))

\* C2: intersecting a WeeklyDeliveryWindow with itself returns, for each of the
\* 7 days, exactly the windows the schedule already had.
C2_SelfIntersectionIsIdentity ==
    intersection # None =>
        \A day \in DayOfWeek :
            intersection.schedule[day].windows = venue_window.schedule[day].windows

\* C3: construction preserves coverage: a minute of the day lies in a window of
\* the constructed DeliveryWindow exactly when it lies in an input range.
C3_CoveragePreserved ==
    delivery_window # None =>
        \A m \in 0..(MINUTES_IN_DAY - 1) :
            Covered(delivery_window.windows, m) <=> Covered(raw_windows, m)

----------------------------------------------------------------------------
(* SpecWeek: two WeeklyDeliveryWindows, each open on at most one day, are  *)
(* constructed and intersected.                                            *)

\* The window lists a DeliveryWindow can hold after construction from a
\* non-empty list of at most MaxDayWindows valid ranges.
DayWindowLists ==
    {process_windows(L) : L \in SeqsUpTo(ValidRanges, MaxDayWindows) \ {<<>>}}

InitWeek ==
    /\ UseCaseUnused
    /\ TimeAlgebraUnused
    /\ BreakerUnused
    /\ raw_windows = None
    /\ window_day = None
    /\ delivery_window = None
    /\ venue_window = empty
    /\ courier_window = empty
    /\ intersection = None
    /\ venue_data = None
    /\ courier_data = None
    /\ conversion = None

\* WeeklyDeliveryWindow({day: DeliveryWindow(day, windows)}) for the venue
VenueOpens(day, windows) ==
    /\ intersection = None
    /\ venue_window = empty
    /\ venue_window' = NewWeeklyDeliveryWindow({day},
                            [d \in {day} |-> NewDeliveryWindow(day, windows)])
    /\ UNCHANGED <<use_case_vars, time_vars, breaker_vars>>
    /\ UNCHANGED <<raw_windows, window_day, delivery_window, courier_window, intersection,
                   venue_data, courier_data, conversion>>

\* WeeklyDeliveryWindow({day: DeliveryWindow(day, windows)}) for the couriers
CourierOpens(day, windows) ==
    /\ intersection = None
    /\ courier_window = empty
    /\ courier_window' = NewWeeklyDeliveryWindow({day},
                            [d \in {day} |-> NewDeliveryWindow(day, windows)])
    /\ UNCHANGED <<use_case_vars, time_vars, breaker_vars>>
    /\ UNCHANGED <<raw_windows, window_day, delivery_window, venue_window, intersection,
                   venue_data, courier_data, conversion>>

\* venue_window.intersect_with(courier_window)
Intersect ==
    /\ intersection = None
    /\ intersection' = WeeklyDeliveryWindow_intersect_with(venue_window, courier_window)
    /\ UNCHANGED <<use_case_vars, time_vars, breaker_vars>>
    /\ UNCHANGED <<raw_windows, window_day, delivery_window, venue_window, courier_window,
                   venue_data, courier_data, conversion>>

NextWeek ==
    \/ \E day \in DayOfWeek, windows \in DayWindowLists : VenueOpens(day, windows)
    \/ \E day \in DayOfWeek, windows \in DayWindowLists : CourierOpens(day, windows)
    \/ Intersect

SpecWeek == InitWeek /\ [][NextWeek]_vars

----------------------------------------------------------------------------
(* Claims about intersection (SpecWeek).                                   *)

\* C4: intersection is sound: every minute in a window of the intersection of
\* two DeliveryWindows of the same day lies in a window of each operand.
C4_IntersectionSound ==
    intersection # None =>
        \A day \in DayOfWeek : \A m \in 0..(MINUTES_IN_DAY - 1) :
            Covered(intersection.schedule[day].windows, m) =>
                /\ Covered(venue_window.schedule[day].windows, m)
                /\ Covered(courier_window.schedule[day].windows, m)

\* C6: the weekly intersection is computed day by day: each day of the result
\* is the intersection of the operands' windows of that day alone, a day closed
\* in either operand is closed in the result, and the result has 7 entries.
C6_DayByDay ==
    intersection # None =>
        /\ DOMAIN intersection.schedule = DayOfWeek
        /\ \A day \in DayOfWeek :
            /\ intersection.schedule[day] =
                   DeliveryWindow_intersect_with(get_day_window(venue_window, day),
                                                 get_day_window(courier_window, day))
            /\ intersection.schedule[day].day = day
            /\ (is_closed(venue_window.schedule[day]) \/ is_closed(courier_window.schedule[day]))
                   => is_closed(intersection.schedule[day])

\* C6 witness: an intersection was computed from operands open on different
\* days, and from operands open on the same day with a non-closed result.
C6_Witness ==
    /\ intersection # None
    /\ \E d1, d2 \in DayOfWeek :
        /\ d1 # d2
        /\ ~is_closed(venue_window.schedule[d1])
        /\ ~is_closed(courier_window.schedule[d2])
        /\ is_closed(courier_window.schedule[d1])
        /\ \A day \in DayOfWeek : is_closed(intersection.schedule[day])

----------------------------------------------------------------------------
(* SpecConv: an upstream response is assembled event by event and then     *)
(* converted by TimeWindowsConverter.convert_to_weekly_delivery_window.    *)

\* Day names of the response: the two days around the week's wrap, and a name
\* that is no day.
DayKeys == {"sunday", "monday", "funday"}

\* Timestamps in seconds: 00:00, 00:20, 01:00, and one past the end of the day.
Timestamps == {0, 1200, 3600, SECONDS_IN_DAY}

Events == [open : Timestamps] \cup [close : Timestamps]

\* The events drawn for a day name: any event for a day of the week; one fixed
\* event for the unknown name, whose list the converter never reads.
EventsFor(day_name) ==
    IF \E day \in DayOfWeek : get_day_name_mapping(day) = day_name
    THEN Events ELSE {[open |-> 0]}

EmptyData == [name \in {} |-> <<>>]

TotalEvents(data) ==
    LET RECURSIVE Sum(_)
        Sum(names) == IF names = {} THEN 0
                      ELSE LET n == CHOOSE x \in names : TRUE
                           IN  Len(data[n]) + Sum(names \ {n})
    IN  Sum(DOMAIN data)

InitConv ==
    /\ UseCaseUnused
    /\ TimeAlgebraUnused
    /\ BreakerUnused
    /\ raw_windows = None
    /\ window_day = None
    /\ delivery_window = None
    /\ venue_window = None
    /\ courier_window = None
    /\ intersection = None
    /\ venue_data = EmptyData
    /\ courier_data = None
    /\ conversion = None

\* The response gains one more event under day_name.
AddEvent(day_name, event) ==
    /\ conversion = None
    /\ TotalEvents(venue_data) < MaxEvents
    /\ venue_data' = IF day_name \in DOMAIN venue_data
                     THEN [venue_data EXCEPT ![day_name] = Append(@, event)]
                     ELSE venue_data @@ (day_name :> <<event>>)
    /\ UNCHANGED <<use_case_vars, time_vars, breaker_vars>>
    /\ UNCHANGED <<raw_windows, window_day, delivery_window, venue_window, courier_window,
                   intersection, courier_data, conversion>>

\* TimeWindowsConverter.convert_to_weekly_delivery_window(venue_data)
Convert ==
    /\ conversion = None
    /\ conversion' = convert_to_weekly_delivery_window(venue_data)
    /\ venue_window' = conversion'.result
    /\ UNCHANGED <<use_case_vars, time_vars, breaker_vars>>
    /\ UNCHANGED <<raw_windows, window_day, delivery_window, courier_window,
                   intersection, venue_data, courier_data>>

NextConv ==
    \/ \E day_name \in DayKeys : \E event \in EventsFor(day_name) : AddEvent(day_name, event)
    \/ Convert

SpecConv == InitConv /\ [][NextConv]_vars

----------------------------------------------------------------------------
(* Claims about the converter (SpecConv).                                  *)

Converted == conversion # None

NextDay(day) == (day + 1) % Len(DayNames)

DayEvents(day) == DataGet(venue_data, get_day_name_mapping(day))

CountOpens(events) == Cardinality({i \in 1..Len(events) : "open" \in DOMAIN events[i]})

\* C7: the conversion never raises, whatever the events (out of order,
\* duplicated, unbalanced, out of range, too short, under unknown day names): it
\* returns a WeeklyDeliveryWindow of 7 days, and no day has more windows than
\* its event list has opens.
C7_NeverRaises ==
    Converted =>
        /\ conversion.raised = None
        /\ conversion.result # None
        /\ DOMAIN conversion.result.schedule = DayOfWeek
        /\ \A day \in DayOfWeek :
            Len(conversion.result.schedule[day].windows) <= CountOpens(DayEvents(day))

\* C7 witness: a response with an unknown day name and a known day whose open
\* and close are both out of range has been converted.
C7_Witness ==
    /\ Converted
    /\ "funday" \in DOMAIN venue_data
    /\ \E day \in DayOfWeek :
        /\ Len(DayEvents(day)) >= 2
        /\ DayEvents(day)[1] = [open |-> SECONDS_IN_DAY]
        /\ DayEvents(day)[2] = [close |-> SECONDS_IN_DAY]

\* The pairing the specification states: opens and closes each sorted ascending
\* and walked with two pointers; a pair with close >= open builds a range (an
\* invalid one is skipped) and advances both, otherwise only the close pointer
\* advances.
RECURSIVE InsertInt(_, _)
InsertInt(sorted, x) ==
    IF sorted = <<>> THEN <<x>>
    ELSE IF x < Head(sorted) THEN <<x>> \o sorted
    ELSE <<Head(sorted)>> \o InsertInt(Tail(sorted), x)

RECURSIVE SortInts(_)
SortInts(xs) ==
    IF xs = <<>> THEN <<>>
    ELSE InsertInt(SortInts(SubSeq(xs, 1, Len(xs) - 1)), xs[Len(xs)])

RECURSIVE OpensOf(_)
OpensOf(events) ==
    IF events = <<>> THEN <<>>
    ELSE (IF "open" \in DOMAIN Head(events) THEN <<Head(events).open>> ELSE <<>>)
         \o OpensOf(Tail(events))

RECURSIVE ClosesOf(_)
ClosesOf(events) ==
    IF events = <<>> THEN <<>>
    ELSE (IF "close" \in DOMAIN Head(events) THEN <<Head(events).close>> ELSE <<>>)
         \o ClosesOf(Tail(events))

RECURSIVE TwoPointers(_, _, _, _)
TwoPointers(opens, closes, i, j) ==
    IF i > Len(opens) \/ j > Len(closes) THEN <<>>
    ELSE IF closes[j] >= opens[i]
    THEN LET r == TryTimeRange(opens[i], closes[j])
         IN  (IF IsError(r) THEN <<>> ELSE <<r>>) \o TwoPointers(opens, closes, i + 1, j + 1)
    ELSE TwoPointers(opens, closes, i, j + 1)

SpecifiedPairing(events) ==
    TwoPointers(SortInts(OpensOf(events)), SortInts(ClosesOf(events)), 1, 1)

\* A list of ranges as a multiset.
SeqRange(xs) == {xs[i] : i \in 1..Len(xs)}
AsBag(xs) == [r \in SeqRange(xs) |-> Cardinality({i \in 1..Len(xs) : xs[i] = r})]

\* The timestamp of an event, and whether a list is in ascending timestamp
\* order with an open before a close of the same timestamp.
Ts(event) == IF "open" \in DOMAIN event THEN event.open ELSE event.close
Chronological(events) ==
    \A i \in 1..(Len(events) - 1) :
        \/ Ts(events[i]) < Ts(events[i + 1])
        \/ /\ Ts(events[i]) = Ts(events[i + 1])
           /\ ~("close" \in DOMAIN events[i] /\ "open" \in DOMAIN events[i + 1])

\* C8 (as claimed): for every day's event list the within-day ranges are those
\* of the two-pointer pairing over the sorted opens and sorted closes, so that
\* they do not depend on the order of the events in the list.
C8_SortedTwoPointerPairing ==
    Converted =>
        \A day \in DayOfWeek :
            AsBag(conversion.within[day].time_ranges) = AsBag(SpecifiedPairing(DayEvents(day)))

\* C8 (amended): the events are walked in list order; every range is built from
\* an open and a close that comes later in the list and is not earlier in time;
\* and for a list in ascending timestamp order the ranges are exactly those of
\* the two-pointer pairing, in the same order.
C8_ListOrderPairing ==
    Converted =>
        \A day \in DayOfWeek :
            LET within == conversion.within[day]
                events == DayEvents(day)
            IN  /\ Len(within.pairs) = Len(within.time_ranges)
                /\ \A k \in 1..Len(within.pairs) :
                    LET i == within.pairs[k][1]
                        j == within.pairs[k][2]
                    IN  /\ i < j
                        /\ "open" \in DOMAIN events[i]
                        /\ "close" \in DOMAIN events[j]
                        /\ events[j].close >= events[i].open
                        /\ within.time_ranges[k] = TryTimeRange(events[i].open, events[j].close)
                /\ Chronological(events) => within.time_ranges = SpecifiedPairing(events)

\* C8 witness: a chronological list of three events or more, with a second open
\* that finds no close left, produced a within-day range.
C8_Witness ==
    /\ Converted
    /\ \E day \in DayOfWeek :
        /\ Chronological(DayEvents(day))
        /\ Len(DayEvents(day)) >= 3
        /\ CountOpens(DayEvents(day)) >= 2
        /\ Len(conversion.within[day].time_ranges) = 1

\* The overnight pattern of handle_all_days: the day's list ends with an open
\* and the following day's list begins with a close.
OvernightPattern(day) ==
    LET today == DayEvents(day)
        tomorrow == DayEvents(NextDay(day))
    IN  /\ today # <<>>
        /\ tomorrow # <<>>
        /\ "open" \in DOMAIN today[Len(today)]
        /\ "close" \in DOMAIN tomorrow[1]

\* The windows a day holds given its within-day ranges and the range stitched
\* for it, if any.
DayWindowsOf(day) ==
    LET within == conversion.within[day].time_ranges
    IN  IF conversion.stitched[day] = None THEN process_windows(within)
        ELSE process_windows(process_windows(within) \o <<conversion.stitched[day]>>)

\* C9: when a day's list ends with an open and the next day's list (Monday
\* after Sunday) begins with a close, the range synthesized from the two is an
\* overnight TimeRange stored under the first day only; the next day holds the
\* windows of its own events.
C9_StitchedRangeIsOvernight ==
    Converted =>
        \A day \in DayOfWeek :
            (OvernightPattern(day) /\ conversion.stitched[day] # None) =>
                /\ is_overnight(conversion.stitched[day])
                /\ conversion.result.schedule[day].windows = DayWindowsOf(day)
                /\ conversion.result.schedule[NextDay(day)].windows = DayWindowsOf(NextDay(day))

\* The events that went into a TimeRange of the conversion, one entry per use:
\* <<day, index>> of the open and of the close of every within-day pair and of
\* every stitched range.
RECURSIVE PairUses(_, _)
PairUses(day, pairs) ==
    IF pairs = <<>> THEN <<>>
    ELSE <<<<day, Head(pairs)[1]>>, <<day, Head(pairs)[2]>>>> \o PairUses(day, Tail(pairs))

StitchUses(day) ==
    IF conversion.stitched[day] = None THEN <<>>
    ELSE <<<<day, Len(DayEvents(day))>>, <<NextDay(day), 1>>>>

RECURSIVE EventUses(_)
EventUses(day) ==
    IF day > SUNDAY THEN <<>>
    ELSE PairUses(day, conversion.within[day].pairs) \o StitchUses(day) \o EventUses(day + 1)

\* C10: during one conversion no open event and no close event contributes to
\* more than one TimeRange, within a day or across days.
C10_EventUsedOnce ==
    Converted =>
        LET uses == EventUses(MONDAY)
        IN  \A a, b \in 1..Len(uses) : uses[a] = uses[b] => a = b

\* C10 witness: a conversion built a within-day range and a stitched range for
\* the same day, whose list holds a further open that found no close.
C10_Witness ==
    /\ Converted
    /\ \E day \in DayOfWeek :
        /\ conversion.stitched[day] # None
        /\ Len(conversion.within[day].pairs) >= 1
        /\ Len(DayEvents(day)) >= 3

----------------------------------------------------------------------------
(* SpecOvernight: the venue and the couriers both answer with a trailing   *)
(* open on Monday and a leading close on Tuesday (the couriers open again  *)
(* on Tuesday, 10:00 to 22:00); both answers are converted and the two     *)
(* schedules intersected.                                                  *)

TUESDAY == 1

\* 18:00, 20:00, 22:00 and 01:00, 02:00, 03:00 in seconds since midnight.
EveningOpens == {64800, 72000, 79200}
MorningCloses == {3600, 7200, 10800}

InitOvernight ==
    /\ UseCaseUnused
    /\ TimeAlgebraUnused
    /\ BreakerUnused
    /\ raw_windows = None
    /\ window_day = None
    /\ delivery_window = None
    /\ venue_window = None
    /\ courier_window = None
    /\ intersection = None
    /\ conversion = None
    /\ \E venue_open \in EveningOpens, venue_close \in MorningCloses :
        venue_data = [monday |-> <<[open |-> venue_open]>>,
                      tuesday |-> <<[close |-> venue_close]>>]
    /\ \E courier_open \in EveningOpens, courier_close \in MorningCloses :
        courier_data = [monday |-> <<[open |-> courier_open]>>,
                        tuesday |-> <<[close |-> courier_close],
                                      [open |-> 36000], [close |-> 79200]>>]

\* The venue adapter converts its answer.
ConvertVenue ==
    /\ venue_window = None
    /\ venue_window' = convert_to_weekly_delivery_window(venue_data).result
    /\ UNCHANGED <<use_case_vars, time_vars, breaker_vars>>
    /\ UNCHANGED <<raw_windows, window_day, delivery_window, courier_window, intersection,
                   venue_data, courier_data, conversion>>

\* The courier adapter converts its answer.
ConvertCourier ==
    /\ courier_window = None
    /\ courier_window' = convert_to_weekly_delivery_window(courier_data).result
    /\ UNCHANGED <<use_case_vars, time_vars, breaker_vars>>
    /\ UNCHANGED <<raw_windows, window_day, delivery_window, venue_window, intersection,
                   venue_data, courier_data, conversion>>

\* venue_window.intersect_with(courier_window)
IntersectConverted ==
    /\ venue_window # None
    /\ courier_window # None
    /\ intersection = None
    /\ intersection' = WeeklyDeliveryWindow_intersect_with(venue_window, courier_window)
    /\ UNCHANGED <<use_case_vars, time_vars, breaker_vars>>
    /\ UNCHANGED <<raw_windows, window_day, delivery_window, venue_window, courier_window,
                   venue_data, courier_data, conversion>>

NextOvernight == ConvertVenue \/ ConvertCourier \/ IntersectConverted

SpecOvernight == InitOvernight /\ [][NextOvernight]_vars

\* C5: when both schedules hold an overnight range on Monday, Monday's
\* intersection is the one range from the later start to the earlier end
\* (venue 20:00->02:00 with courier 18:00->01:00 gives 20:00->01:00), and
\* Tuesday is closed.
C5_OvernightOverlap ==
    intersection # None =>
        LET v == venue_window.schedule[MONDAY].windows[1]
            c == courier_window.schedule[MONDAY].windows[1]
        IN  /\ is_overnight(v) /\ is_overnight(c)
            /\ intersection.schedule[MONDAY].windows =
                   <<[start_time |-> TimeMax(v.start_time, c.start_time),
                      end_time |-> TimeMin(v.end_time, c.end_time)]>>
            /\ is_closed(intersection.schedule[TUESDAY])

----------------------------------------------------------------------------
(* Exceptions of the application layer.  A raised exception is a record    *)
(* whose field `error` is its class; an ApiRequestError also carries the   *)
(* status_code it was constructed with.                                    *)

ApiRequestError(status_code) == [error |-> "ApiRequestError", status_code |-> status_code]

CircuitBreakerError == Raised("CircuitBreakerError")

\* The classes an exception of class `name` is an instance of.
Superclasses(name) ==
    CASE name = "ApiRequestError" -> {"ApiRequestError", "HttpClientError", "Exception"}
      [] name = "CircuitBreakerError" -> {"CircuitBreakerError", "Exception"}
      [] name = "IncompatibleDaysError" ->
            {"IncompatibleDaysError", "DeliveryWindowError", "DomainError", "Exception"}
      [] name = "HTTPStatusError" -> {"HTTPStatusError", "HTTPError", "Exception"}
      [] name = "ConnectError" -> {"ConnectError", "HTTPError", "Exception"}
      [] OTHER -> {name, "Exception"}

isinstance(e, class) == class \in Superclasses(e.error)

\* getattr(obj, name, default)
getattr(obj, name, default) == IF name \in DOMAIN obj THEN obj[name] ELSE default

----------------------------------------------------------------------------
(* DeliveryHoursResult                                                     *)

VENUE_SERVICE == "venue_service"
COURIER_SERVICE == "courier_service"
DOMAIN_LOGIC == "domain_logic"
UNKNOWN == "unknown"
WARNING == "warning"
ERROR == "error"

EmptyDict == [key \in {} |-> None]

ServiceError(code, source, severity, details) ==
    [code |-> code, source |-> source, severity |-> severity, details |-> details]

\* DeliveryHoursResult(delivery_window=...): errors and metadata start empty.
DeliveryHoursResult(window) ==
    [delivery_window |-> window, errors |-> <<>>, metadata |-> EmptyDict]

has_errors(res) == Len(res.errors) > 0

has_critical_errors(res) == \E i \in 1..Len(res.errors) : res.errors[i].severity = ERROR

add_error(res, code, source, severity, details) ==
    [res EXCEPT !.errors = Append(@, ServiceError(code, source, severity, details))]

add_metadata(res, key, value) ==
    [res EXCEPT !.metadata = [k \in DOMAIN @ \cup {key} |-> IF k = key THEN value ELSE @[k]]]

----------------------------------------------------------------------------
(* GetVenueDeliveryHoursUseCase                                            *)

Services == {"venue", "courier"}

service_type_to_error_source(service_type) ==
    IF service_type = "venue" THEN VENUE_SERVICE ELSE COURIER_SERVICE

\* service_type.upper()
upper(service_type) == IF service_type = "venue" THEN "VENUE" ELSE "COURIER"

\* statuses[key] = value on a dict
SetItem(dict, key, value) ==
    [k \in DOMAIN dict \cup {key} |-> IF k = key THEN value ELSE dict[k]]

\* A version without the final `except Exception` clause.
except_clause_without_catch_all(e) ==
    IF isinstance(e, "CircuitBreakerError") THEN "CircuitBreakerError"
    ELSE IF isinstance(e, "ApiRequestError") THEN "ApiRequestError"
    ELSE "uncaught"

\* The except clause of _execute_task_safely that handles e: the first whose
\* class e is an instance of.
except_clause(e) ==
    IF isinstance(e, "CircuitBreakerError") THEN "CircuitBreakerError"
    ELSE IF isinstance(e, "ApiRequestError") THEN "ApiRequestError"
    ELSE IF isinstance(e, "Exception") THEN "Exception"
    ELSE "uncaught"

\* A version that compares the status code with the text "404", which no
\* integer equals.
is_not_found_compares_text(e) == FALSE

\* e.status_code == 404
is_not_found(e) == e.status_code = 404

\* _execute_task_safely once `await task` has an outcome: the value it returns,
\* the result and the statuses it leaves, and the exception that leaves it (None
\* when it returns).
execute_task_safely(task_outcome, service_type, res, statuses) ==
    LET error_source == service_type_to_error_source(service_type)
        service_status_key == service_type \o "_service"
        Returns(value, new_res, status) ==
            [value |-> value, result |-> new_res,
             service_statuses |-> SetItem(statuses, service_status_key, status),
             raised |-> None]
    IN  IF ~IsError(task_outcome) THEN Returns(task_outcome, res, "success")
        ELSE IF except_clause(task_outcome) = "CircuitBreakerError"
        THEN Returns(None,
                     add_error(res, upper(service_type) \o "_SERVICE_UNAVAILABLE",
                               error_source, ERROR, [circuit_breaker |-> TRUE]),
                     "circuit_open")
        ELSE IF except_clause(task_outcome) = "ApiRequestError"
        THEN IF is_not_found(task_outcome)
             THEN Returns(empty,
                          add_error(res, upper(service_type) \o "_NOT_FOUND",
                                    error_source, WARNING, None),
                          "not_found")
             ELSE Returns(None,
                          add_error(res, upper(service_type) \o "_SERVICE_ERROR",
                                    error_source, ERROR,
                                    [status_code |-> task_outcome.status_code]),
                          "api_error_" \o ToString(task_outcome.status_code))
        ELSE IF except_clause(task_outcome) = "Exception"
        THEN Returns(None,
                     add_error(res, upper(service_type) \o "_SERVICE_ERROR",
                               error_source, ERROR, [error_type |-> task_outcome.error]),
                     "error")
        ELSE [value |-> None, result |-> res, service_statuses |-> statuses,
              raised |-> task_outcome]

\* A version that names the side that did answer.
missing_hours_swapped(venue_hours, courier_hours) ==
    IF venue_hours = None /\ courier_hours = None THEN "return"
    ELSE IF venue_hours = None THEN "MISSING_COURIER_HOURS"
    ELSE IF courier_hours = None THEN "MISSING_VENUE_HOURS"
    ELSE "intersect"

\* The three early returns of execute that precede the intersection.
missing_hours(venue_hours, courier_hours) ==
    IF venue_hours = None /\ courier_hours = None THEN "return"
    ELSE IF venue_hours = None THEN "MISSING_VENUE_HOURS"
    ELSE IF courier_hours = None THEN "MISSING_COURIER_HOURS"
    ELSE "intersect"

\* A version whose try block catches the time errors of the domain only.
intersection_caught_time_errors_only(e) == isinstance(e, "TimeError")

\* except Exception around venue_hours.intersect_with(courier_hours)
intersection_caught(e) == isinstance(e, "Exception")

\* `return result` in execute.
execute_returns(new_res, called) ==
    [result |-> new_res, intersect_called |-> called, raised |-> None]

\* The try block of execute around intersect_with, given what the call gave.
execute_try_intersection(delivery_hours, res, statuses) ==
    IF ~IsError(delivery_hours)
    THEN execute_returns(add_metadata([res EXCEPT !.delivery_window = delivery_hours],
                                      "service_statuses", statuses),
                         TRUE)
    ELSE IF intersection_caught(delivery_hours)
    THEN execute_returns(add_error(res, "INTERSECTION_ERROR", DOMAIN_LOGIC, ERROR,
                                   [error_type |-> delivery_hours.error]),
                         TRUE)
    ELSE [result |-> res, intersect_called |-> TRUE, raised |-> delivery_hours]

\* execute from the return of _get_hours_from_services to its own return:
\* the result, whether intersect_with was called, and the exception that
\* leaves execute (None when it returns).
execute_combine(venue_hours, courier_hours, res, statuses) ==
    LET decision == missing_hours(venue_hours, courier_hours)
    IN  IF decision = "return" THEN execute_returns(res, FALSE)
        ELSE IF decision = "MISSING_VENUE_HOURS"
        THEN execute_returns(add_error(res, decision, VENUE_SERVICE, ERROR, None), FALSE)
        ELSE IF decision = "MISSING_COURIER_HOURS"
        THEN execute_returns(add_error(res, decision, COURIER_SERVICE, ERROR, None), FALSE)
        ELSE execute_try_intersection(
                 IF venue_hours = None \/ courier_hours = None
                 THEN Raised("AttributeError")
                 ELSE WeeklyDeliveryWindow_intersect_with(venue_hours, courier_hours),
                 res, statuses)

----------------------------------------------------------------------------
(* HttpClient and the two adapters.  An upstream answer is a record with a *)
(* status_code and a json body, or a transport failure.                    *)

\* httpx.HTTPStatusError, as response.raise_for_status() raises it: it holds the
\* request and the response.
HTTPStatusError(upstream_response) ==
    [error |-> "HTTPStatusError", request |-> "GET", response |-> upstream_response]

\* HttpClient.get: the response, or the ApiRequestError it raises.
HttpClient_get(upstream) ==
    LET e == IF "transport_error" \in DOMAIN upstream
             THEN Raised(upstream.transport_error)
             ELSE IF upstream.status_code >= 400
             THEN HTTPStatusError(upstream)
             ELSE None
    IN  IF e = None THEN upstream
        ELSE IF isinstance(e, "HTTPError")
        THEN ApiRequestError(getattr(e, "status_code", 500))
        ELSE e

\* VenueServiceAdapter.get_opening_hours with no cached answer: every
\* exception is logged and raised again.
get_opening_hours(upstream) ==
    LET http_response == HttpClient_get(upstream)
    IN  IF IsError(http_response) THEN http_response
        ELSE convert_to_weekly_delivery_window(http_response.json).result

\* CourierServiceAdapter.get_delivery_hours with no cached answer.
get_delivery_hours(upstream) ==
    LET http_response == HttpClient_get(upstream)
    IN  IF IsError(http_response) THEN http_response
        ELSE convert_to_weekly_delivery_window(http_response.json).result

\* What the port of one side gives: a port is a stub with a fixed outcome, or
\* the adapter in front of an upstream.
call_port(port, service_type) ==
    IF "stub" \in DOMAIN port THEN port.stub
    ELSE IF service_type = "venue" THEN get_opening_hours(port.upstream)
    ELSE get_delivery_hours(port.upstream)

----------------------------------------------------------------------------
(* The endpoint: error mapping and formatting.                             *)

HTTPException(status_code, detail) ==
    [error |-> "HTTPException", status_code |-> status_code, detail |-> detail]

ServiceFailureCodes ==
    {"VENUE_SERVICE_UNAVAILABLE", "COURIER_SERVICE_UNAVAILABLE",
     "VENUE_SERVICE_ERROR", "COURIER_SERVICE_ERROR"}

\* The loop of _raise_appropriate_exception from the i-th error on.
RECURSIVE RaiseFrom(_, _)
RaiseFrom(errors, i) ==
    IF i > Len(errors) THEN None
    ELSE IF errors[i].code \in ServiceFailureCodes
    THEN HTTPException(503, "Service temporarily unavailable")
    ELSE IF errors[i].source = DOMAIN_LOGIC
    THEN HTTPException(500, "Unable to process delivery hours")
    ELSE RaiseFrom(errors, i + 1)

\* A version that looks at the severity first.
raise_appropriate_exception_severity_first(res) ==
    IF ~has_errors(res) THEN None
    ELSE IF has_critical_errors(res)
    THEN HTTPException(500, "An error occurred while processing your request")
    ELSE RaiseFrom(res.errors, 1)

\* _raise_appropriate_exception: the HTTPException it raises, or None.
raise_appropriate_exception(res) ==
    IF ~has_errors(res) THEN None
    ELSE IF RaiseFrom(res.errors, 1) # None THEN RaiseFrom(res.errors, 1)
    ELSE IF has_critical_errors(res)
    THEN HTTPException(500, "An error occurred while processing your request")
    ELSE None

\* f"{n:02d}"
TwoDigits(n) == IF n < 10 THEN "0" \o ToString(n) ELSE ToString(n)

\* Time.format
Time_format(t) ==
    IF t.minutes = 0 THEN TwoDigits(t.hours)
    ELSE TwoDigits(t.hours) \o ":" \o TwoDigits(t.minutes)

\* DayOfWeek.to_display_string
to_display_string(day) ==
    <<"Monday", "Tuesday", "Wednesday", "Thursday", "Friday", "Saturday", "Sunday">>[day + 1]

\* WeeklyDeliveryWindow.get_schedule_data: per day, the (start_time, end_time)
\* pairs of its windows.
get_schedule_data(w) ==
    [day \in DayOfWeek |->
        [i \in 1..Len(w.schedule[day].windows) |->
            <<w.schedule[day].windows[i].start_time, w.schedule[day].windows[i].end_time>>]]

\* ", ".join(time_ranges)
RECURSIVE Join(_)
Join(strings) ==
    IF Len(strings) = 0 THEN ""
    ELSE IF Len(strings) = 1 THEN strings[1]
    ELSE strings[1] \o ", " \o Join(Tail(strings))

\* _format_hours
format_hours(res) ==
    LET schedule_data == get_schedule_data(res.delivery_window)
        time_ranges(day) ==
            [i \in 1..Len(schedule_data[day]) |->
                Time_format(schedule_data[day][i][1]) \o "-"
                    \o Time_format(schedule_data[day][i][2])]
    IN  [day_name \in {to_display_string(day) : day \in DayOfWeek} |->
            LET day == CHOOSE d \in DayOfWeek : to_display_string(d) = day_name
            IN  IF Len(schedule_data[day]) = 0 THEN "Closed" ELSE Join(time_ranges(day))]

----------------------------------------------------------------------------
(* SpecUseCase: one request.  execute creates the two lookup tasks and     *)
(* suspends; the event loop runs the tasks in any interleaving; execute    *)
(* resumes on each awaited task, combines the two results and returns; the *)
(* endpoint maps the result to a response.  Each port is a stub with a     *)
(* fixed outcome: a schedule, an ApiRequestError, a CircuitBreakerError or *)
(* another exception.                                                      *)

\* A schedule that holds, under key_day, a one-window DeliveryWindow of held_day.
OneDaySchedule(key_day, held_day, range) ==
    NewWeeklyDeliveryWindow({key_day},
        [d \in {key_day} |-> NewDeliveryWindow(held_day, <<range>>)])

\* Every schedule the converter builds holds each day's own window under that
\* day; a schedule built by hand need not.
KeyedByOwnDay(w) == \A day \in DayOfWeek : w.schedule[day].day = day

PortSchedules ==
    {empty} \cup {OneDaySchedule(MONDAY, held_day, range) :
                     held_day \in {MONDAY, TUESDAY}, range \in ValidRanges}

StubOutcomes ==
    PortSchedules
        \cup {ApiRequestError(404), ApiRequestError(500), ApiRequestError(503),
              CircuitBreakerError, Raised("RuntimeError")}

InitRequest(port_set) ==
    /\ DomainUnused
    /\ TimeAlgebraUnused
    /\ BreakerUnused
    /\ ports \in [Services -> port_set]
    /\ tasks = [s \in Services |-> [state |-> "none", outcome |-> None]]
    /\ pc = "request"
    /\ task_results = EmptyDict
    /\ result = None
    /\ service_statuses = None
    /\ response = None
    /\ log = <<>>

InitUseCase == InitRequest({[stub |-> outcome] : outcome \in StubOutcomes})

\* A version that resumes execute as soon as any task has failed.
task_finished_or_any_failed(service_type, tks) ==
    \/ tks[service_type].state = "done"
    \/ \E s \in Services : tks[s].state = "done" /\ IsError(tks[s].outcome)

\* `await task` returns or raises once the task is done.
task_finished(service_type, tks) == tks[service_type].state = "done"

\* A version that takes the tasks in the order they complete.
next_awaited_as_completed(remaining, tks) ==
    IF "courier" \in remaining /\ tks["courier"].state = "done" THEN "courier"
    ELSE IF "venue" \in remaining THEN "venue"
    ELSE "courier"

\* _get_hours_from_services awaits the venue task, then the courier task.
next_awaited(remaining, tks) == IF "venue" \in remaining THEN "venue" ELSE "courier"

\* The endpoint calls execute, which runs up to its first await: the result and
\* the statuses exist and both tasks are created.
Execute ==
    /\ pc = "request"
    /\ result' = DeliveryHoursResult(empty)
    /\ service_statuses' = EmptyDict
    /\ tasks' = [s \in Services |-> [state |-> "scheduled", outcome |-> None]]
    /\ pc' = "awaiting"
    /\ UNCHANGED <<ports, task_results, response, log>>
    /\ UNCHANGED <<domain_vars, time_vars, breaker_vars>>

\* The event loop starts a task: the port's coroutine runs up to its first await.
StartTask(service_type) ==
    /\ tasks[service_type].state = "scheduled"
    /\ tasks' = [tasks EXCEPT ![service_type].state = "running"]
    /\ log' = Append(log, service_type \o " started")
    /\ UNCHANGED <<ports, pc, task_results, result, service_statuses, response>>
    /\ UNCHANGED <<domain_vars, time_vars, breaker_vars>>

\* A running task returns or raises.
FinishTask(service_type) ==
    /\ tasks[service_type].state = "running"
    /\ tasks' = [tasks EXCEPT ![service_type] =
                    [state |-> "done",
                     outcome |-> call_port(ports[service_type], service_type)]]
    /\ log' = Append(log, service_type \o " finished")
    /\ UNCHANGED <<ports, pc, task_results, result, service_statuses, response>>
    /\ UNCHANGED <<domain_vars, time_vars, breaker_vars>>

\* execute runs from the second `await` to its end: it combines the hours and
\* returns, or an exception leaves it.
FinishExecute(combined) ==
    /\ result' = combined.result
    /\ pc' = IF combined.raised # None THEN "raised" ELSE "returned"
    /\ log' = IF combined.intersect_called THEN Append(log, "intersect_with") ELSE log

\* _get_hours_from_services stores what _execute_task_safely gave for this task
\* and awaits the next one or returns to execute.
StoreHours(service_type, safely, results) ==
    /\ task_results' = results
    /\ service_statuses' = safely.service_statuses
    /\ IF Services \ DOMAIN task_results # {service_type}
       THEN /\ result' = safely.result
            /\ pc' = "awaiting"
            /\ log' = log
       ELSE FinishExecute(execute_combine(results["venue"], results["courier"],
                                         safely.result, safely.service_statuses))

\* What execute does with the outcome `safely` of _execute_task_safely.
ResumeExecute(service_type, safely) ==
    IF safely.raised # None
    THEN /\ pc' = "raised"
         /\ UNCHANGED <<task_results, result, service_statuses, log>>
    ELSE StoreHours(service_type, safely,
                    SetItem(task_results, service_type, safely.value))

\* execute resumes from `await task` in _execute_task_safely; after the second
\* task it runs on to its return.
AwaitTask(service_type) ==
    /\ pc = "awaiting"
    /\ service_type = next_awaited(Services \ DOMAIN task_results, tasks)
    /\ task_finished(service_type, tasks)
    /\ ResumeExecute(service_type,
                     execute_task_safely(tasks[service_type].outcome, service_type,
                                         result, service_statuses))
    /\ UNCHANGED <<ports, tasks, response>>
    /\ UNCHANGED <<domain_vars, time_vars, breaker_vars>>

\* get_delivery_hours after execute has returned: the error mapping, then the
\* formatted body.
Respond ==
    /\ pc = "returned"
    /\ pc' = "answered"
    /\ response' =
        LET raised == raise_appropriate_exception(result)
        IN  IF raised # None
            THEN [status_code |-> raised.status_code, body |-> [detail |-> raised.detail]]
            ELSE [status_code |-> 200, body |-> [delivery_hours |-> format_hours(result)]]
    /\ UNCHANGED <<ports, tasks, task_results, result, service_statuses, log>>
    /\ UNCHANGED <<domain_vars, time_vars, breaker_vars>>

NextRequest ==
    \/ Execute
    \/ \E service_type \in Services : StartTask(service_type)
    \/ \E service_type \in Services : FinishTask(service_type)
    \/ \E service_type \in Services : AwaitTask(service_type)
    \/ Respond

SpecUseCase == InitUseCase /\ [][NextRequest]_vars

----------------------------------------------------------------------------
(* Properties of one request.                                              *)

Returned == pc \in {"returned", "answered"}

\* What the lookup of one side gives, whenever it runs.
LookupOutcome(s) == call_port(ports[s], s)

Succeeded(s) == ~IsError(LookupOutcome(s))

NotFound(s) ==
    /\ IsError(LookupOutcome(s))
    /\ LookupOutcome(s).error = "ApiRequestError"
    /\ LookupOutcome(s).status_code = 404

BreakerOpen(s) == IsError(LookupOutcome(s)) /\ LookupOutcome(s).error = "CircuitBreakerError"

UpstreamError(s) ==
    /\ IsError(LookupOutcome(s))
    /\ LookupOutcome(s).error = "ApiRequestError"
    /\ LookupOutcome(s).status_code # 404

FailedHard(s) == IsError(LookupOutcome(s)) /\ ~NotFound(s)

Other(s) == IF s = "venue" THEN "courier" ELSE "venue"

SourceOf(s) == IF s = "venue" THEN "venue_service" ELSE "courier_service"

Prefix(s) == IF s = "venue" THEN "VENUE" ELSE "COURIER"

AllClosed(w) == \A day \in DayOfWeek : Len(w.schedule[day].windows) = 0

Codes(res) == [i \in 1..Len(res.errors) |-> res.errors[i].code]

Occurs(entry) == \E i \in 1..Len(log) : log[i] = entry

Before(first, second) ==
    \E i, j \in 1..Len(log) : i < j /\ log[i] = first /\ log[j] = second

\* Both sides gave execute a schedule and intersect_with raised on them.
IntersectionFailed ==
    /\ pc \in {"returned", "answered", "raised"}
    /\ DOMAIN task_results = Services
    /\ \A s \in Services : task_results[s] # None
    /\ IsError(WeeklyDeliveryWindow_intersect_with(task_results["venue"],
                                                   task_results["courier"]))

\* C11: execute never raises: whatever the two lookups give (a schedule, a 404
\* ApiRequestError, another ApiRequestError, a CircuitBreakerError, any other
\* exception) and whether or not intersect_with raises, no exception leaves
\* execute, what it returns is a DeliveryHoursResult, every failed lookup has
\* an entry of its source in result.errors and a failed intersection has an
\* INTERSECTION_ERROR entry.
C11_ExecuteNeverRaises ==
    /\ pc # "raised"
    /\ Returned =>
        /\ DOMAIN result = {"delivery_window", "errors", "metadata"}
        /\ DOMAIN result.delivery_window = {"schedule"}
        /\ \A s \in Services :
              IsError(LookupOutcome(s)) =>
                  \E i \in 1..Len(result.errors) : result.errors[i].source = SourceOf(s)
        /\ IntersectionFailed =>
              \E i \in 1..Len(result.errors) : result.errors[i].code = "INTERSECTION_ERROR"

C11_Witness ==
    /\ pc = "returned"
    /\ LookupOutcome("venue") = Raised("RuntimeError")
    /\ NotFound("courier")
    /\ Codes(result) = <<"VENUE_SERVICE_ERROR", "COURIER_NOT_FOUND", "MISSING_VENUE_HOURS">>

\* C12: in every interleaving both lookups are started and each has finished
\* before intersect_with is called and before execute returns; a lookup that
\* fails, however early, neither cancels the other nor lets execute go on
\* without it.
C12_BothLookupsFinishFirst ==
    /\ \A s \in Services : tasks[s].state \in {"none", "scheduled", "running", "done"}
    /\ (Returned \/ pc = "raised") =>
          \A s \in Services :
              /\ tasks[s].state = "done"
              /\ Before(s \o " started", s \o " finished")
    /\ \A s \in Services :
          Occurs("intersect_with") => Before(s \o " finished", "intersect_with")

\* The venue lookup has failed before the courier lookup was even started.
C12_Witness ==
    /\ pc = "returned"
    /\ FailedHard("venue")
    /\ log = <<"venue started", "venue finished", "courier started", "courier finished">>

\* C13: when exactly one lookup fails with a 404 ApiRequestError and the other
\* succeeds (with a schedule that holds each day's window under that day, as
\* every converted schedule does), execute intersects against the empty
\* schedule and returns a window closed on all 7 days with exactly one error:
\* VENUE_NOT_FOUND or COURIER_NOT_FOUND, a WARNING of the matching source; the
\* result has no critical error.
C13_NotFoundIsSoft ==
    \A s \in Services :
        (/\ Returned
         /\ NotFound(s)
         /\ Succeeded(Other(s))
         /\ KeyedByOwnDay(LookupOutcome(Other(s)))) =>
            /\ Occurs("intersect_with")
            /\ AllClosed(result.delivery_window)
            /\ Len(result.errors) = 1
            /\ result.errors[1].code = Prefix(s) \o "_NOT_FOUND"
            /\ result.errors[1].severity = "warning"
            /\ result.errors[1].source = SourceOf(s)
            /\ ~has_critical_errors(result)

C13_Witness ==
    /\ pc = "returned"
    /\ NotFound("courier")
    /\ Succeeded("venue")
    /\ ~AllClosed(LookupOutcome("venue"))
    /\ KeyedByOwnDay(LookupOutcome("venue"))
    /\ Codes(result) = <<"COURIER_NOT_FOUND">>

\* C14: when exactly one lookup fails with a CircuitBreakerError or a non-404
\* ApiRequestError and the other succeeds, no intersection is computed, the
\* window is closed on all 7 days and the errors are exactly two ERROR entries:
\* <SIDE>_SERVICE_UNAVAILABLE (breaker) or <SIDE>_SERVICE_ERROR (upstream), then
\* MISSING_<SIDE>_HOURS.
C14_HardFailureOfOneSide ==
    \A s \in Services :
        (/\ Returned
         /\ BreakerOpen(s) \/ UpstreamError(s)
         /\ Succeeded(Other(s))) =>
            /\ ~Occurs("intersect_with")
            /\ AllClosed(result.delivery_window)
            /\ Codes(result) =
                  <<IF BreakerOpen(s) THEN Prefix(s) \o "_SERVICE_UNAVAILABLE"
                                      ELSE Prefix(s) \o "_SERVICE_ERROR",
                    "MISSING_" \o Prefix(s) \o "_HOURS">>
            /\ \A i \in 1..Len(result.errors) : result.errors[i].severity = "error"

C14_Witness ==
    /\ pc = "returned"
    /\ BreakerOpen("courier")
    /\ Succeeded("venue")
    /\ ~AllClosed(LookupOutcome("venue"))
    /\ Codes(result) = <<"COURIER_SERVICE_UNAVAILABLE", "MISSING_COURIER_HOURS">>

\* C15: when both lookups fail hard, execute returns a window closed all week
\* with exactly two errors, VENUE_SERVICE_* first and COURIER_SERVICE_* second
\* whichever lookup finished first, no MISSING_*_HOURS entry, and intersect_with
\* is not called.
C15_BothFailHard ==
    (Returned /\ FailedHard("venue") /\ FailedHard("courier")) =>
        /\ AllClosed(result.delivery_window)
        /\ Len(result.errors) = 2
        /\ result.errors[1].code \in {"VENUE_SERVICE_UNAVAILABLE", "VENUE_SERVICE_ERROR"}
        /\ result.errors[2].code \in {"COURIER_SERVICE_UNAVAILABLE", "COURIER_SERVICE_ERROR"}
        /\ ~Occurs("intersect_with")

\* The courier lookup has failed before the venue lookup has finished.
C15_Witness ==
    /\ pc = "returned"
    /\ FailedHard("venue")
    /\ FailedHard("courier")
    /\ Before("courier finished", "venue finished")
    /\ Codes(result) = <<"VENUE_SERVICE_ERROR", "COURIER_SERVICE_UNAVAILABLE">>

\* C16 (as claimed): if both lookups resolve to schedules (a not-found lookup
\* resolves to the empty one) and intersect_with raises, execute returns the
\* initial empty window with exactly one error, INTERSECTION_ERROR of source
\* DOMAIN_LOGIC and severity ERROR, and the exception is not propagated.
C16_OnlyIntersectionError ==
    IntersectionFailed =>
        /\ pc # "raised"
        /\ result.delivery_window = empty
        /\ Len(result.errors) = 1
        /\ result.errors[1].code = "INTERSECTION_ERROR"
        /\ result.errors[1].source = "domain_logic"
        /\ result.errors[1].severity = "error"

\* The *_NOT_FOUND warnings of the lookups that were not found, venue first.
NotFoundCodes ==
    (IF NotFound("venue") THEN <<"VENUE_NOT_FOUND">> ELSE <<>>)
        \o (IF NotFound("courier") THEN <<"COURIER_NOT_FOUND">> ELSE <<>>)

\* C16 (amended): if both lookups resolve to schedules and intersect_with
\* raises, execute returns the initial empty window, the exception is not
\* propagated, and the errors are the NOT_FOUND warning of each lookup that was
\* not found followed by exactly one INTERSECTION_ERROR of source DOMAIN_LOGIC
\* and severity ERROR: that entry is the only one when both lookups succeeded.
C16_IntersectionErrorAfterWarnings ==
    IntersectionFailed =>
        /\ pc # "raised"
        /\ result.delivery_window = empty
        /\ Codes(result) = NotFoundCodes \o <<"INTERSECTION_ERROR">>
        /\ result.errors[Len(result.errors)].source = "domain_logic"
        /\ result.errors[Len(result.errors)].severity = "error"
        /\ \A i \in 1..(Len(result.errors) - 1) : result.errors[i].severity = "warning"

C16_Witness ==
    /\ pc = "returned"
    /\ IntersectionFailed
    /\ Succeeded("venue")
    /\ Succeeded("courier")
    /\ Codes(result) = <<"INTERSECTION_ERROR">>

\* C18: for every result execute produces, the endpoint answers 503 when a
\* source failed hard (a *_SERVICE_UNAVAILABLE or *_SERVICE_ERROR entry is
\* present), 500 when the only hard error is INTERSECTION_ERROR, and 200 exactly
\* when the result has no ERROR entry, which is when its errors are empty or
\* *_NOT_FOUND warnings only.
C18_ErrorMapping ==
    pc = "answered" =>
        LET codes == {result.errors[i].code : i \in 1..Len(result.errors)}
            service_failed ==
                codes \cap {"VENUE_SERVICE_UNAVAILABLE", "COURIER_SERVICE_UNAVAILABLE",
                            "VENUE_SERVICE_ERROR", "COURIER_SERVICE_ERROR"} # {}
            no_error_entry ==
                \A i \in 1..Len(result.errors) : result.errors[i].severity # "error"
        IN  /\ service_failed => response.status_code = 503
            /\ (~service_failed /\ "INTERSECTION_ERROR" \in codes) =>
                  response.status_code = 500
            /\ response.status_code = 200 <=> no_error_entry
            /\ no_error_entry <=> codes \subseteq {"VENUE_NOT_FOUND", "COURIER_NOT_FOUND"}

C18_Witness ==
    /\ pc = "answered"
    /\ response.status_code = 503
    /\ Codes(result) = <<"VENUE_SERVICE_ERROR", "COURIER_NOT_FOUND", "MISSING_VENUE_HOURS">>

----------------------------------------------------------------------------
(* SpecEndToEnd: one request with the two adapters as ports.  Each         *)
(* upstream answers 200 with a body of events, answers 404, 500 or 503, or *)
(* cannot be reached.                                                      *)

UpstreamBodies ==
    {EmptyData}
        \cup {[monday |-> <<[open |-> opens], [close |-> closes]>>] :
                 opens \in Timestamps \ {SECONDS_IN_DAY}, closes \in Timestamps}

UpstreamAnswers ==
    {[status_code |-> 200, json |-> body] : body \in UpstreamBodies}
        \cup {[status_code |-> status_code, json |-> [error |-> "Unknown id"]] :
                 status_code \in {404, 500, 503}}
        \cup {[transport_error |-> "ConnectError"]}

InitEndToEnd == InitRequest({[upstream |-> answer] : answer \in UpstreamAnswers})

SpecEndToEnd == InitEndToEnd /\ [][NextRequest]_vars

UpstreamStatus(s) ==
    IF "status_code" \in DOMAIN ports[s].upstream THEN ports[s].upstream.status_code ELSE 0

\* C17: end to end, an upstream 404 for the venue (or for the city) while the
\* other upstream answers 200 gives a 200 response in which all seven days are
\* "Closed": the 404 reaches the use case as an ApiRequestError whose
\* status_code is 404 and is taken for not-found, not for a service error.
C17_UpstreamNotFoundIsClosed ==
    \A s \in Services :
        (UpstreamStatus(s) = 404 /\ UpstreamStatus(Other(s)) = 200) =>
            /\ tasks[s].state = "done" =>
                  tasks[s].outcome = [error |-> "ApiRequestError", status_code |-> 404]
            /\ pc = "answered" =>
                  /\ response.status_code = 200
                  /\ \A day_name \in DOMAIN response.body.delivery_hours :
                        response.body.delivery_hours[day_name] = "Closed"

----------------------------------------------------------------------------
(* SpecRange: TimeRange(start_time, end_time) is constructed from two      *)
(* Times around the minimum duration and around midnight; the range that   *)
(* exists is then merged or intersected with another range, and the same   *)
(* two Times are handed to the converter as an open and a close.           *)

BoundaryMinutes ==
    {MIN_MINUTES, MIN_MINUTES + 1, MINIMUM_DURATION_MINUTES - 1, MINIMUM_DURATION_MINUTES,
     MINIMUM_DURATION_MINUTES + 1, MAX_MINUTES}

RangeTimes == {NewTime(h, m) : h \in {MIN_HOURS, 2, 14, 22, MAX_HOURS}, m \in BoundaryMinutes}

InitRange ==
    /\ DomainUnused
    /\ UseCaseUnused
    /\ BreakerUnused
    /\ range_start \in RangeTimes
    /\ range_end \in RangeTimes
    /\ built_range = None
    /\ second_range = None
    /\ derived_range = None
    /\ clock = None
    /\ delta = None
    /\ shifted = None

\* TimeRange(range_start, range_end)
CreateRange ==
    /\ built_range = None
    /\ built_range' = NewTimeRange(range_start, range_end)
    /\ UNCHANGED <<range_start, range_end, second_range, derived_range, clock, delta, shifted>>
    /\ UNCHANGED <<domain_vars, use_case_vars, breaker_vars>>

\* built_range.merge(other)
MergeRange(other) ==
    /\ built_range # None
    /\ ~IsError(built_range)
    /\ derived_range = None
    /\ second_range' = other
    /\ derived_range' = [call |-> "merge", value |-> merge(built_range, other)]
    /\ UNCHANGED <<range_start, range_end, built_range, clock, delta, shifted>>
    /\ UNCHANGED <<domain_vars, use_case_vars, breaker_vars>>

\* built_range.find_intersection(other)
IntersectRange(other) ==
    /\ built_range # None
    /\ ~IsError(built_range)
    /\ derived_range = None
    /\ second_range' = other
    /\ derived_range' = [call |-> "find_intersection",
                         value |-> find_intersection(built_range, other)]
    /\ UNCHANGED <<range_start, range_end, built_range, clock, delta, shifted>>
    /\ UNCHANGED <<domain_vars, use_case_vars, breaker_vars>>

\* The converter's construction from an open at range_start and a close at
\* range_end: None when the construction raised and was skipped.
ConvertRange ==
    /\ built_range # None
    /\ derived_range = None
    /\ derived_range' =
        [call |-> "convert",
         value |-> LET r == TryTimeRange(minutes_since_midnight(range_start) * 60,
                                         minutes_since_midnight(range_end) * 60)
                   IN  IF CaughtInDay(r) THEN None ELSE r]
    /\ UNCHANGED <<range_start, range_end, built_range, second_range, clock, delta, shifted>>
    /\ UNCHANGED <<domain_vars, use_case_vars, breaker_vars>>

\* The ranges of the unit tests of merge, overlaps_with and find_intersection,
\* and 21:00-23:00, which overlaps 22:00-02:00 without lying inside it.
TestedRanges ==
    {NewTimeRange(NewTime(22, 0), NewTime(2, 0)), NewTimeRange(NewTime(21, 0), NewTime(3, 0)),
     NewTimeRange(NewTime(23, 0), NewTime(5, 0)), NewTimeRange(NewTime(21, 0), NewTime(23, 0)),
     NewTimeRange(NewTime(14, 0), NewTime(16, 0)), NewTimeRange(NewTime(15, 0), NewTime(17, 0))}

OtherRanges == ValidRanges \cup TestedRanges

NextRange ==
    \/ CreateRange
    \/ \E other \in OtherRanges : MergeRange(other)
    \/ \E other \in OtherRanges : IntersectRange(other)
    \/ ConvertRange

SpecRange == InitRange /\ [][NextRange]_vars

\* The wrap-aware duration of the claim, on minutes since midnight.
WrapDuration(start_minutes, end_minutes) ==
    IF start_minutes < end_minutes THEN end_minutes - start_minutes
    ELSE 1440 - start_minutes + end_minutes

MinutesOf(t) == 60 * t.hours + t.minutes

\* C19: TimeRange construction succeeds if and only if the wrap-aware duration
\* is at least 30 minutes, where the duration is end - start when start < end
\* and 1440 - start + end when start >= end (1440 when they are equal), and
\* is_overnight holds exactly when start >= end; so every TimeRange that exists
\* (constructed, converted, merged or intersected) lasts at least 30 minutes:
\* (14:00, 14:29) fails, (14:00, 14:30) succeeds, (22:00, 02:00) lasts 240.
C19_MinimumDuration ==
    LET wrap == WrapDuration(MinutesOf(range_start), MinutesOf(range_end))
        Exists(r) ==
            /\ DOMAIN r = {"start_time", "end_time"}
            /\ WrapDuration(MinutesOf(r.start_time), MinutesOf(r.end_time)) >= 30
    IN  /\ built_range # None =>
            /\ ~IsError(built_range) <=> wrap >= 30
            /\ IsError(built_range) => built_range = Raised("InvalidDurationError")
            /\ ~IsError(built_range) =>
                /\ Exists(built_range)
                /\ duration_minutes(built_range) = wrap
                /\ is_overnight(built_range) <=> MinutesOf(range_start) >= MinutesOf(range_end)
            /\ (range_start = NewTime(14, 0) /\ range_end = NewTime(14, 29)) =>
                  IsError(built_range)
            /\ (range_start = NewTime(14, 0) /\ range_end = NewTime(14, 30)) =>
                  ~IsError(built_range)
            /\ (range_start = NewTime(22, 0) /\ range_end = NewTime(2, 0)) =>
                  /\ ~IsError(built_range)
                  /\ duration_minutes(built_range) = 240
        /\ derived_range # None =>
            (derived_range.value # None => Exists(derived_range.value))

\* A full-day range (start = end) has been constructed and merged.
C19_Witness ==
    /\ built_range # None
    /\ ~IsError(built_range)
    /\ range_start = range_end
    /\ duration_minutes(built_range) = 1440
    /\ derived_range # None
    /\ derived_range.call = "merge"
    /\ derived_range.value = built_range

----------------------------------------------------------------------------
(* SpecClock: add_minutes or subtract_minutes is called once on a Time     *)
(* with an integer of either sign, up to two days away.                    *)

MaxShift == 2881     \* largest number of minutes added or subtracted

ClockTimes ==
    {NewTime(MIN_HOURS, MIN_MINUTES), NewTime(MIN_HOURS, 30), NewTime(12, 0),
     NewTime(14, 30), NewTime(MAX_HOURS, MAX_MINUTES)}

InitClock ==
    /\ DomainUnused
    /\ UseCaseUnused
    /\ BreakerUnused
    /\ range_start = None
    /\ range_end = None
    /\ built_range = None
    /\ second_range = None
    /\ derived_range = None
    /\ clock \in ClockTimes
    /\ delta \in (0 - MaxShift)..MaxShift
    /\ shifted = None

\* clock.add_minutes(delta)
AddMinutes ==
    /\ shifted = None
    /\ shifted' = [call |-> "add_minutes", value |-> add_minutes(clock, delta)]
    /\ UNCHANGED <<range_start, range_end, built_range, second_range, derived_range,
                   clock, delta>>
    /\ UNCHANGED <<domain_vars, use_case_vars, breaker_vars>>

\* clock.subtract_minutes(delta)
SubtractMinutes ==
    /\ shifted = None
    /\ shifted' = [call |-> "subtract_minutes", value |-> subtract_minutes(clock, delta)]
    /\ UNCHANGED <<range_start, range_end, built_range, second_range, derived_range,
                   clock, delta>>
    /\ UNCHANGED <<domain_vars, use_case_vars, breaker_vars>>

NextClock == AddMinutes \/ SubtractMinutes

SpecClock == InitClock /\ [][NextClock]_vars

\* C20: for every valid Time t and every integer n, positive, zero or negative,
\* t.add_minutes(n) is a valid Time, never an InvalidTimeError, whose minutes
\* since midnight lie in 0..1439 and differ from t's minutes since midnight
\* plus n by a multiple of 1440; subtract_minutes(n) is add_minutes(-n), so
\* 00:30 minus 60 minutes is 23:30.
C20_AddMinutesWraps ==
    shifted # None =>
        LET n == IF shifted.call = "add_minutes" THEN delta ELSE 0 - delta
            target == MinutesOf(clock) + n
        IN  /\ ~IsError(shifted.value)
            /\ shifted.value.hours \in 0..23
            /\ shifted.value.minutes \in 0..59
            /\ \E days \in -3..3 : MinutesOf(shifted.value) = target + 1440 * days
            /\ shifted.call = "subtract_minutes" =>
                  shifted.value = add_minutes(clock, 0 - delta)
            /\ (shifted.call = "subtract_minutes" /\ clock = NewTime(0, 30) /\ delta = 60) =>
                  shifted.value = NewTime(23, 30)

\* 00:30 minus 60 minutes.
C20_Witness ==
    /\ shifted # None
    /\ shifted.call = "subtract_minutes"
    /\ clock = NewTime(0, 30)
    /\ delta = 60
    /\ shifted.value = NewTime(23, 30)

----------------------------------------------------------------------------
(* CircuitBreaker and the circuit_breaker decorator (common/resilience.py). *)
(* A datetime is a record holding seconds; the configuration is the one of  *)
(* the two adapters: the defaults with a reset_timeout of 30 seconds.       *)

failure_threshold == 5
reset_timeout == 30
half_open_max_calls == 3

CLOSED == "CLOSED"
OPEN == "OPEN"
HALF_OPEN == "HALF_OPEN"
CircuitBreakerState == {CLOSED, OPEN, HALF_OPEN}

datetime(seconds) == [seconds |-> seconds]

\* CircuitBreaker(config)
NewCircuitBreaker ==
    [failures |-> 0, last_failure |-> None, state |-> CLOSED, half_open_calls |-> 0]

\* A version that opens only on the failure that meets the threshold.
threshold_reached_exactly(failures) == failures = failure_threshold

\* self.failures >= self.config.failure_threshold
threshold_reached(failures) == failures >= failure_threshold

\* record_failure at the time utc_now
record_failure(b, utc_now) ==
    [b EXCEPT !.failures = b.failures + 1,
              !.last_failure = utc_now,
              !.state = IF threshold_reached(b.failures + 1) THEN OPEN ELSE b.state]

\* A version that closes on the first success after the timeout.
half_open_quota_reached_at_once(calls) == calls >= 1

\* self.half_open_calls >= self.config.half_open_max_calls
half_open_quota_reached(calls) == calls >= half_open_max_calls

\* A version that counts consecutive failures: a success while CLOSED forgets them.
record_success_consecutive(b) ==
    IF b.state = HALF_OPEN
    THEN IF half_open_quota_reached(b.half_open_calls + 1)
         THEN [b EXCEPT !.half_open_calls = b.half_open_calls + 1,
                        !.state = CLOSED, !.failures = 0]
         ELSE [b EXCEPT !.half_open_calls = b.half_open_calls + 1]
    ELSE IF b.state = CLOSED THEN [b EXCEPT !.failures = 0]
    ELSE b

record_success(b) ==
    IF b.state = HALF_OPEN
    THEN IF half_open_quota_reached(b.half_open_calls + 1)
         THEN [b EXCEPT !.half_open_calls = b.half_open_calls + 1,
                        !.state = CLOSED, !.failures = 0]
         ELSE [b EXCEPT !.half_open_calls = b.half_open_calls + 1]
    ELSE b

\* A version that lets a call through when exactly reset_timeout has elapsed.
timeout_elapsed_inclusive(b, utc_now) ==
    /\ b.last_failure # None
    /\ utc_now.seconds - b.last_failure.seconds >= reset_timeout

\* self.last_failure and datetime.now(UTC) - self.last_failure > reset_timeout
timeout_elapsed(b, utc_now) ==
    /\ b.last_failure # None
    /\ utc_now.seconds - b.last_failure.seconds > reset_timeout

\* can_execute at the time utc_now: what it returns and the breaker it leaves.
can_execute(b, utc_now) ==
    IF b.state = CLOSED THEN [returns |-> TRUE, breaker |-> b]
    ELSE IF b.state = OPEN
    THEN IF timeout_elapsed(b, utc_now)
         THEN [returns |-> TRUE,
               breaker |-> [b EXCEPT !.state = HALF_OPEN, !.half_open_calls = 0]]
         ELSE [returns |-> FALSE, breaker |-> b]
    ELSE [returns |-> TRUE, breaker |-> b]

\* A version of the wrapper that lets a not-found pass without recording it.
wrapper_catches_all_but_not_found(e) ==
    isinstance(e, "Exception") /\ ~(e.error = "ApiRequestError" /\ e.status_code = 404)

\* `except Exception as e` in the wrapper
wrapper_catches(e) == isinstance(e, "Exception")

\* The wrapper from the return of `await func(...)` on: the breaker it leaves.
wrapper_after_await(b, outcome, utc_now) ==
    IF ~IsError(outcome) THEN record_success(b)
    ELSE IF wrapper_catches(outcome) THEN record_failure(b, utc_now)
    ELSE b

----------------------------------------------------------------------------
(* SpecBreaker: calls go through the wrapper of one decorated lookup while *)
(* time passes.  A call is rejected or invokes the wrapped function, which *)
(* returns or raises while other calls may be awaiting it too.             *)

MaxClock == 31        \* the last second at which anything happens
MaxInFlight == 2      \* most calls awaiting the wrapped function at once

\* What the wrapped lookup gives: a schedule, a not-found, an upstream failure,
\* or an exception of another class.
WrappedOutcomes ==
    {empty, ApiRequestError(404), ApiRequestError(500), Raised("RuntimeError")}

\* The errors execute has after _execute_task_safely awaited a venue task
\* that gave this outcome.
reported_errors(outcome) ==
    execute_task_safely(outcome, "venue", DeliveryHoursResult(empty), EmptyDict).result.errors

InitBreaker ==
    /\ DomainUnused
    /\ UseCaseUnused
    /\ TimeAlgebraUnused
    /\ breaker = NewCircuitBreaker
    /\ now = 0
    /\ in_flight = 0
    /\ last_call = None
    /\ observed = [failures |-> 0, half_open_successes |-> 0, only_not_found |-> TRUE,
                   success_between |-> FALSE]

\* Time passes.
Advance(seconds) ==
    /\ now + seconds <= MaxClock
    /\ now' = now + seconds
    /\ UNCHANGED <<breaker, in_flight, last_call, observed>>
    /\ UNCHANGED <<domain_vars, use_case_vars, time_vars>>

\* The wrapper up to `await func(...)`, or to its raise when can_execute is False.
CallThrough(can) ==
    /\ can.returns => in_flight < MaxInFlight
    /\ breaker' = can.breaker
    /\ in_flight' = IF can.returns THEN in_flight + 1 ELSE in_flight
    /\ last_call' =
        IF can.returns
        THEN [step |-> "invoked", outcome |-> None, before |-> breaker, at |-> now,
              errors |-> <<>>]
        ELSE [step |-> "rejected", outcome |-> CircuitBreakerError, before |-> breaker,
              at |-> now, errors |-> reported_errors(CircuitBreakerError)]
    /\ observed' = IF breaker.state = OPEN /\ can.breaker.state = HALF_OPEN
                   THEN [observed EXCEPT !.half_open_successes = 0]
                   ELSE observed

Call ==
    /\ CallThrough(can_execute(breaker, datetime(now)))
    /\ UNCHANGED now
    /\ UNCHANGED <<domain_vars, use_case_vars, time_vars>>

\* What an observer of the calls counts when the wrapped function has given
\* `outcome` and the wrapper has left the breaker as `after`.
Observe(outcome, after) ==
    IF IsError(outcome)
    THEN [observed EXCEPT
            !.failures = observed.failures + 1,
            !.only_not_found = observed.only_not_found /\ outcome = ApiRequestError(404)]
    ELSE IF breaker.state = HALF_OPEN /\ after.state = CLOSED
    THEN [failures |-> 0, half_open_successes |-> observed.half_open_successes + 1,
          only_not_found |-> TRUE, success_between |-> FALSE]
    ELSE IF breaker.state = HALF_OPEN
    THEN [observed EXCEPT !.half_open_successes = observed.half_open_successes + 1]
    ELSE IF breaker.state = CLOSED /\ observed.failures > 0
    THEN [observed EXCEPT !.success_between = TRUE]
    ELSE observed

\* The wrapper from the return of `await func(...)` to its own return or raise.
CompleteWith(outcome, after) ==
    /\ breaker' = after
    /\ in_flight' = in_flight - 1
    /\ last_call' = [step |-> IF IsError(outcome) THEN "raised" ELSE "returned",
                     outcome |-> outcome, before |-> breaker, at |-> now,
                     errors |-> reported_errors(outcome)]
    /\ observed' = Observe(outcome, after)

Complete(outcome) ==
    /\ in_flight > 0
    /\ CompleteWith(outcome, wrapper_after_await(breaker, outcome, datetime(now)))
    /\ UNCHANGED now
    /\ UNCHANGED <<domain_vars, use_case_vars, time_vars>>

NextBreaker ==
    \/ \E seconds \in {1, reset_timeout} : Advance(seconds)
    \/ Call
    \/ \E outcome \in WrappedOutcomes : Complete(outcome)

SpecBreaker == InitBreaker /\ [][NextBreaker]_vars

----------------------------------------------------------------------------
(* Properties of the circuit breaker.                                      *)

\* Seconds between the breaker's last failure and the last wrapper step.
ElapsedAtCall == last_call.at - last_call.before.last_failure.seconds

\* The last wrapper step was the start of a call (can_execute was consulted).
CallStarted == last_call # None /\ last_call.step \in {"invoked", "rejected"}

\* C21: the breaker enters OPEN as soon as its recorded failures reach
\* failure_threshold, and while it is OPEN and no more than reset_timeout has
\* elapsed since the last failure, every call through the decorator raises
\* CircuitBreakerError without invoking the wrapped function.
C21_OpenBlocksCalls ==
    /\ (/\ last_call # None
        /\ last_call.step = "raised"
        /\ last_call.before.failures + 1 >= failure_threshold)
           => breaker.state = OPEN
    /\ (/\ CallStarted
        /\ last_call.before.state = OPEN
        /\ ElapsedAtCall <= reset_timeout)
           => /\ last_call.step = "rejected"
              /\ last_call.outcome = CircuitBreakerError
              /\ breaker = last_call.before

\* A call is rejected exactly reset_timeout seconds after the fifth failure.
C21_Witness ==
    /\ CallStarted
    /\ last_call.step = "rejected"
    /\ last_call.before.state = OPEN
    /\ last_call.before.failures = failure_threshold
    /\ ElapsedAtCall = reset_timeout

\* C22: the breaker leaves OPEN only through can_execute once more than
\* reset_timeout has elapsed since the last failure, moving to HALF_OPEN with
\* half_open_calls reset to 0; from HALF_OPEN it returns to CLOSED, with
\* failures reset to 0, exactly when half_open_max_calls successes have been
\* recorded since entering HALF_OPEN.
C22_Recovery ==
    last_call # None =>
        /\ (last_call.before.state = OPEN /\ breaker.state # OPEN)
              => /\ last_call.step = "invoked"
                 /\ ElapsedAtCall > reset_timeout
                 /\ breaker.state = HALF_OPEN
                 /\ breaker.half_open_calls = 0
        /\ last_call.before.state = HALF_OPEN
              => /\ breaker.state = CLOSED <=>
                        /\ last_call.step = "returned"
                        /\ observed.half_open_successes = half_open_max_calls
                 /\ breaker.state = CLOSED => breaker.failures = 0
        /\ breaker.state = HALF_OPEN
              => observed.half_open_successes < half_open_max_calls
        /\ (last_call.before.state # CLOSED /\ breaker.state = CLOSED)
              => last_call.before.state = HALF_OPEN

\* The third success since the breaker became HALF_OPEN has closed it.
C22_Witness ==
    /\ last_call # None
    /\ last_call.step = "returned"
    /\ last_call.before.state = HALF_OPEN
    /\ last_call.before.failures >= failure_threshold
    /\ observed.half_open_successes = half_open_max_calls
    /\ breaker.state = CLOSED
    /\ breaker.failures = 0

\* C28: while the breaker is CLOSED, a successful call leaves the failure
\* count unchanged: failures are cumulative, not consecutive, so the breaker
\* opens once the total number of failures since it was last closed from
\* HALF_OPEN (or since creation) reaches failure_threshold, however many
\* successes are interleaved.
C28_FailuresAreCumulative ==
    /\ (/\ last_call # None
        /\ last_call.step = "returned"
        /\ last_call.before.state = CLOSED)
           => breaker = last_call.before
    /\ breaker.failures = observed.failures
    /\ observed.failures >= failure_threshold <=> breaker.state # CLOSED
    /\ (/\ last_call # None
        /\ last_call.step = "raised"
        /\ last_call.before.state = CLOSED
        /\ observed.failures = failure_threshold)
           => breaker.state = OPEN

\* The fifth failure opens the breaker although a success came between the
\* failures.
C28_Witness ==
    /\ last_call # None
    /\ last_call.step = "raised"
    /\ last_call.before.state = CLOSED
    /\ observed.failures = failure_threshold
    /\ observed.success_between
    /\ breaker.state = OPEN

\* C29: in every state reachable through the decorator, the breaker being OPEN
\* or HALF_OPEN implies failures >= failure_threshold; consequently a single
\* failed call while HALF_OPEN puts the breaker back to OPEN, and the failure
\* count is reset to 0 only on the HALF_OPEN to CLOSED transition.
C29_OpenMeansThresholdMet ==
    /\ breaker.state \in {OPEN, HALF_OPEN} => breaker.failures >= failure_threshold
    /\ last_call # None =>
        /\ (last_call.step = "raised" /\ last_call.before.state = HALF_OPEN)
              => breaker.state = OPEN
        /\ breaker.failures < last_call.before.failures
              => /\ last_call.before.state = HALF_OPEN
                 /\ breaker.state = CLOSED
                 /\ breaker.failures = 0

\* A call that was let through after the timeout has failed and reopened the
\* breaker.
C29_Witness ==
    /\ last_call # None
    /\ last_call.step = "raised"
    /\ last_call.before.state = HALF_OPEN
    /\ breaker.state = OPEN
    /\ breaker.failures = failure_threshold + 1

VenueUnavailable ==
    <<ServiceError("VENUE_SERVICE_UNAVAILABLE", VENUE_SERVICE, ERROR,
                   [circuit_breaker |-> TRUE])>>

\* C30: every exception raised by a decorated adapter call, including a 404
\* not-found ApiRequestError, is recorded as a breaker failure: after
\* failure_threshold (5) venue lookups that end in not-found, the next venue
\* lookup within reset_timeout (30 s) raises CircuitBreakerError without
\* contacting the cache or the upstream, and execute reports it as
\* VENUE_SERVICE_UNAVAILABLE with ERROR severity instead of a not-found warning.
C30_NotFoundTripsBreaker ==
    last_call # None =>
        /\ last_call.step = "raised"
              => /\ breaker.failures = last_call.before.failures + 1
                 /\ breaker.last_failure = datetime(last_call.at)
        /\ (/\ CallStarted
            /\ observed.only_not_found
            /\ observed.failures >= failure_threshold
            /\ ElapsedAtCall <= reset_timeout)
              => /\ last_call.step = "rejected"
                 /\ last_call.outcome = CircuitBreakerError
                 /\ last_call.errors = VenueUnavailable

\* Five lookups ended in not-found and the sixth is rejected.
C30_Witness ==
    /\ CallStarted
    /\ observed.only_not_found
    /\ observed.failures = failure_threshold
    /\ last_call.step = "rejected"
    /\ last_call.errors = VenueUnavailable
    /\ last_call.errors[1].severity = "error"

----------------------------------------------------------------------------
(* Properties of merge and find_intersection on two ranges (SpecRange).    *)

\* In the claims' terms, on minutes since midnight.
Overnight(r) == MinutesOf(r.start_time) >= MinutesOf(r.end_time)

Lasts(r) == WrapDuration(MinutesOf(r.start_time), MinutesOf(r.end_time))

Holds(r, t) ==
    IF Overnight(r)
    THEN MinutesOf(t) >= MinutesOf(r.start_time) \/ MinutesOf(t) <= MinutesOf(r.end_time)
    ELSE MinutesOf(r.start_time) <= MinutesOf(t) /\ MinutesOf(t) <= MinutesOf(r.end_time)

Overlap(a, b) ==
    \/ Holds(a, b.start_time) \/ Holds(a, b.end_time)
    \/ Holds(b, a.start_time) \/ Holds(b, a.end_time)
    \/ (Overnight(a) /\ Overnight(b))

Adjacent(a, b) ==
    /\ ~Overnight(a)
    /\ ~Overnight(b)
    /\ \/ MinutesOf(a.start_time) = MinutesOf(b.end_time)
       \/ MinutesOf(a.end_time) = MinutesOf(b.start_time)

Earlier(s, t) == IF MinutesOf(t) < MinutesOf(s) THEN t ELSE s
Later(s, t) == IF MinutesOf(t) > MinutesOf(s) THEN t ELSE s

Called(name) == derived_range # None /\ derived_range.call = name

\* C23: TimeRange.merge returns None unless the two ranges overlap or are
\* adjacent; otherwise, for two non-overnight ranges it returns
\* [min(starts), max(ends)], when exactly one is overnight it returns that
\* overnight range unchanged, and when both are overnight it returns the one
\* with the greater duration, returning self when the durations are equal.
C23_MergeRule ==
    Called("merge") =>
        LET self == built_range
            other == second_range
            merged == derived_range.value
        IN  IF ~(Overlap(self, other) \/ Adjacent(self, other)) THEN merged = None
            ELSE IF ~Overnight(self) /\ ~Overnight(other)
            THEN merged = [start_time |-> Earlier(self.start_time, other.start_time),
                           end_time |-> Later(self.end_time, other.end_time)]
            ELSE IF Overnight(self) /\ ~Overnight(other) THEN merged = self
            ELSE IF ~Overnight(self) /\ Overnight(other) THEN merged = other
            ELSE IF Lasts(other) > Lasts(self) THEN merged = other
            ELSE merged = self

\* Two different overnight ranges of the same duration have been merged.
C23_Witness ==
    /\ Called("merge")
    /\ Overnight(built_range)
    /\ Overnight(second_range)
    /\ built_range # second_range
    /\ Lasts(built_range) = Lasts(second_range)
    /\ derived_range.value = built_range

\* C24: when exactly one of two overlapping ranges is overnight,
\* find_intersection returns the non-overnight range's own bounds if the
\* overnight range contains both its start and its end, and returns None
\* otherwise, even when the two ranges share 30 minutes or more (overnight
\* 22:00-02:00 with 21:00-23:00 gives None).
C24_OneOvernight ==
    (/\ Called("find_intersection")
     /\ Overlap(built_range, second_range)
     /\ Overnight(built_range) # Overnight(second_range))
        => LET overnight == IF Overnight(built_range) THEN built_range ELSE second_range
               regular == IF Overnight(built_range) THEN second_range ELSE built_range
           IN  IF Holds(overnight, regular.start_time) /\ Holds(overnight, regular.end_time)
               THEN derived_range.value = regular
               ELSE derived_range.value = None

\* 22:00-02:00 has been intersected with 21:00-23:00, with which it shares an hour.
C24_Witness ==
    /\ Called("find_intersection")
    /\ built_range = NewTimeRange(NewTime(22, 0), NewTime(2, 0))
    /\ second_range = NewTimeRange(NewTime(21, 0), NewTime(23, 0))
    /\ derived_range.value = None

----------------------------------------------------------------------------
(* Algebraic properties of normalization and intersection.                 *)

\* The spans common to a window of each list that last at least the minimum
\* duration, as pairs of minutes since midnight.
CommonSpans(windows, others) ==
    {span \in {<<IF MinutesOf(windows[i].start_time) > MinutesOf(others[j].start_time)
                 THEN MinutesOf(windows[i].start_time)
                 ELSE MinutesOf(others[j].start_time),
                 IF MinutesOf(windows[i].end_time) < MinutesOf(others[j].end_time)
                 THEN MinutesOf(windows[i].end_time)
                 ELSE MinutesOf(others[j].end_time)>> :
                    i \in 1..Len(windows), j \in 1..Len(others)} :
        span[2] - span[1] >= MINIMUM_DURATION_MINUTES}

OnlyDaytime(windows) == \A i \in 1..Len(windows) : ~Overnight(windows[i])

\* C25: for two DeliveryWindows of the same day that contain only
\* non-overnight ranges, intersect_with returns exactly the maximal time spans
\* common to both operands that last at least 30 minutes, in ascending order;
\* common spans shorter than 30 minutes are dropped without raising.
C25_DaytimeIntersectionIsExact ==
    intersection # None =>
        \A day \in DayOfWeek :
            LET windows == venue_window.schedule[day].windows
                others == courier_window.schedule[day].windows
                common == intersection.schedule[day].windows
            IN  (OnlyDaytime(windows) /\ OnlyDaytime(others)) =>
                    /\ ~IsError(intersection.schedule[day])
                    /\ {<<MinutesOf(common[k].start_time), MinutesOf(common[k].end_time)>> :
                            k \in 1..Len(common)} = CommonSpans(windows, others)
                    /\ Len(common) = Cardinality(CommonSpans(windows, others))
                    /\ \A k \in 1..(Len(common) - 1) :
                          MinutesOf(common[k].start_time) < MinutesOf(common[k + 1].start_time)

\* C26: DeliveryWindow normalization is idempotent: for every list L of valid
\* TimeRanges, constructing a DeliveryWindow from the windows of
\* DeliveryWindow(day, L) yields the same sequence of windows as
\* DeliveryWindow(day, L) itself.
C26_NormalizationIsIdempotent ==
    delivery_window # None =>
        NewDeliveryWindow(window_day, delivery_window.windows).windows
            = delivery_window.windows

\* C27: schedule intersection is commutative: venue.intersect_with(courier) has
\* the same windows on every day as courier.intersect_with(venue).
C27_IntersectionCommutes ==
    intersection # None =>
        \A day \in DayOfWeek :
            intersection.schedule[day].windows
                = WeeklyDeliveryWindow_intersect_with(courier_window, venue_window)
                      .schedule[day].windows

====
